---- MODULE Spec2Model ----
(***************************************************************************)
(* Model of the video editor's Edit Decision List store (timelineStore:    *)
(* clipSlice + colorSlice under the zundo `temporal` middleware), of the   *)
(* source registry and of the playback store it re-anchors.                *)
(*                                                                         *)
(* Times are integers counted in milliseconds: the literal 0.1 of the      *)
(* source is 100 and the literal 0.001 is 1.  Field names keep the         *)
(* source's "...Seconds" suffix.                                           *)
(***************************************************************************)
EXTENDS Integers, Sequences, FiniteSets, TLC

VARIABLES
    sources,         \* useSourceStore.sources: source id -> VideoSource
    clips,           \* useTimelineStore.clips: TimelineClip[]
    selectedClipId,  \* useTimelineStore.selectedClipId (0 is null)
    colorRegions,    \* useTimelineStore.colorRegions: ColorRegion[]
    pastStates,      \* useTimelineStore.temporal.pastStates
    futureStates,    \* useTimelineStore.temporal.futureStates
    currentTime,     \* usePlaybackStore.currentTime
    isPlaying,       \* usePlaybackStore.isPlaying
    last,            \* the operation that produced this state, with the
                     \* clip list and playhead it was applied to
    view,            \* the timeline view: pixelsPerSecond, the playhead's
                     \* pixel position and the time a pointer position gives
    exportStore,     \* useExportStore: state, error, abortController
    exportRuns,      \* the startExport calls that have not settled yet
    recording,       \* one exportVideo call: where it is, what it holds
    masks,           \* the masks handed to the mask functions, and their results
    segmentation,    \* useSegmentationStore, its requests and its tracking job
    player           \* useVideoPlayback: its effect, video element and timers

vars == <<sources, clips, selectedClipId, colorRegions, pastStates,
          futureStates, currentTime, isPlaying, last, view, exportStore,
          exportRuns, recording, masks, segmentation, player>>

\* What the operations of the timeline, source and playback stores leave alone.
others == <<view, exportStore, exportRuns, recording, masks, segmentation, player>>

(***************************************************************************)
(* Bounds of the model.                                                    *)
(***************************************************************************)
MaxHistory == 3   \* snapshots recorded before Spec cuts further mutations off
MaxTrimHistory == 4   \* the same for SpecTrim
MaxApiHistory == 3    \* the same for SpecApi
MaxReorderHistory == 4   \* the same for SpecReorder
MaxViewClips == 2     \* clips of the arrangements SpecView starts from
MaxExportRuns == 2    \* startExport calls in flight at once
MaxCombined == 3       \* masks combined at once
MaskPixels == 2        \* pixels of a mask
MaxMaskRegions == 2    \* regions of the clip that is composited
MaxPlayhead == 12000   \* playhead times SpecSeek goes up to
MaxTrackedClips == 1   \* clips of the timeline SpecTracking tracks on
MaxTrackedRegions == 1 \* tracking jobs SpecTracking runs
MaxRecordingHistory == 4  \* history entries of the timelines SpecRecording exports
MaxClips == 3     \* clips on the timeline
MaxRegions == 1   \* color regions
MaxMasks == 1     \* frame masks accumulated by one region
MaxGeometryClips == 2   \* clips of an export whose geometry is computed
MaxGeometryFrames == 2  \* frames rendered by such an export
MaxPlaybackHistory == 3 \* timeline changes before and during a playback
MaxPlayTimers == 1      \* seek-then-play timeouts pending at once
MaxSelectionHistory == 3 \* timeline changes while a clip is selected
MaxTrackingHistory == 2 \* timeline changes recorded before a tracking job

(***************************************************************************)
(* Program constants.                                                      *)
(***************************************************************************)
MIN_CLIP_LENGTH == 100     \* the 0.1 s of clampTrimStart / clampTrimEnd
PLAYHEAD_EPSILON == 1      \* the 0.001 s of adjustPlayheadForTrim
Null == -1                 \* getSourceTimeForPlayhead's null
Limit == 50                \* temporal(..., { limit: 50 })
SEEK_AMOUNT_SECONDS == 1000
SEEK_AMOUNT_SHIFT_SECONDS == 5000
MIN_PIXELS_PER_SECOND == 10
MAX_PIXELS_PER_SECOND == 200
END_THRESHOLD_SECONDS == 50
CLIP_TRANSITION_OFFSET_SECONDS == 10
SYNC_THRESHOLD_SECONDS == 50

(***************************************************************************)
(* Inputs.                                                                 *)
(***************************************************************************)
\* Files the user can load, with the duration the metadata probe reports.
FileDurations == [s1 |-> 1000, s2 |-> 400]
SourceFiles == DOMAIN FileDurations
\* Requested points: negative, ordinary, past the source.
TrimStartRequests == {-50, 300}
TrimEndRequests == {600, 2000}
\* The same for SpecTrim, with a move of one millisecond.
TrimStartEdgeRequests == {-50, 1, 300, 2000}
TrimEndEdgeRequests == {-50, 600, 2000}
SplitTimes == {50, 500}
SeekTimes == {500, 1300}

Max(a, b) == IF a >= b THEN a ELSE b
Min(a, b) == IF a <= b THEN a ELSE b
Abs(a) == IF a >= 0 THEN a ELSE 0 - a

(***************************************************************************)
(* lib/utils generateId: a uuid.  What the program relies on is that the   *)
(* id is new: the model takes the smallest number that nothing the stores  *)
(* keep refers to.  (The redo list is dropped by the very `set` that       *)
(* stores a clip or region with a new id, so its ids need not be avoided.) *)
(***************************************************************************)
ClipIdsOf(cs) == {cs[i].id : i \in 1..Len(cs)}

RegionClipIdsOf(rs) == {rs[i].clipId : i \in 1..Len(rs)}

SnapshotClipIds(h) ==
    UNION {ClipIdsOf(h[i].clips) \cup RegionClipIdsOf(h[i].colorRegions) :
               i \in 1..Len(h)}

UsedClipIds == ClipIdsOf(clips) \cup RegionClipIdsOf(colorRegions)
               \cup {selectedClipId} \cup SnapshotClipIds(pastStates)

generateId ==
    CHOOSE i \in 1..(Cardinality(UsedClipIds) + 1) :
        /\ i \notin UsedClipIds
        /\ \A j \in 1..(i - 1) : j \in UsedClipIds

RegionIdsOf(rs) == {rs[i].id : i \in 1..Len(rs)}

SnapshotRegionIds(h) == UNION {RegionIdsOf(h[i].colorRegions) : i \in 1..Len(h)}

UsedRegionIds == RegionIdsOf(colorRegions) \cup SnapshotRegionIds(pastStates)

generateRegionId ==
    CHOOSE i \in 1..(Cardinality(UsedRegionIds) + 1) :
        /\ i \notin UsedRegionIds
        /\ \A j \in 1..(i - 1) : j \in UsedRegionIds

(***************************************************************************)
(* clipSlice.ts: pure helpers.                                             *)
(***************************************************************************)
getClipDuration(clip) == clip.sourceOutPointSeconds - clip.sourceInPointSeconds

RECURSIVE calculateTotalDuration(_)
calculateTotalDuration(cs) ==
    IF cs = <<>> THEN 0
    ELSE getClipDuration(Head(cs)) + calculateTotalDuration(Tail(cs))

\* A clip list whose positions are left as they were.
positionsLeftStale(cs) == cs

recalculatePositions(cs) ==
    [i \in 1..Len(cs) |->
        [cs[i] EXCEPT !.timelinePositionSeconds =
            calculateTotalDuration(SubSeq(cs, 1, i - 1))]]

\* Array.prototype.findIndex, 1-based; 0 when no clip carries the id.
findIndex(cs, clipId) ==
    IF \E i \in 1..Len(cs) : cs[i].id = clipId
    THEN CHOOSE i \in 1..Len(cs) :
             /\ cs[i].id = clipId
             /\ \A j \in 1..(i - 1) : cs[j].id # clipId
    ELSE 0

getSourceTimeForPlayhead(clip, time) ==
    LET clipEnd == clip.timelinePositionSeconds + getClipDuration(clip)
    IN  IF time < clip.timelinePositionSeconds \/ time > clipEnd
        THEN Null
        ELSE clip.sourceInPointSeconds + (time - clip.timelinePositionSeconds)

\* usePlaybackStore.setCurrentTime
setCurrentTime(time) == Max(0, time)

\* A trim that leaves the playhead where it is.
playheadLeftInPlace(clipId, oldClips, newClips, time) == time

\* The playhead adjustPlayheadForTrim leaves, given the playhead it reads.
adjustPlayheadForTrim(clipId, oldClips, newClips, time) ==
    LET oi == findIndex(oldClips, clipId)
        ni == findIndex(newClips, clipId)
    IN  IF oi = 0 \/ ni = 0 THEN time
        ELSE
        LET oldClip == oldClips[oi]
            newClip == newClips[ni]
            sourceTimeBeforeTrim == getSourceTimeForPlayhead(oldClip, time)
            isStillInBounds ==
                /\ sourceTimeBeforeTrim >= newClip.sourceInPointSeconds
                /\ sourceTimeBeforeTrim <= newClip.sourceOutPointSeconds
            newTimelineTime ==
                newClip.timelinePositionSeconds
                    + (sourceTimeBeforeTrim - newClip.sourceInPointSeconds)
        IN  IF sourceTimeBeforeTrim = Null THEN time
            ELSE IF isStillInBounds
            THEN IF Abs(newTimelineTime - time) > PLAYHEAD_EPSILON
                 THEN setCurrentTime(newTimelineTime)
                 ELSE time
            ELSE IF sourceTimeBeforeTrim < newClip.sourceInPointSeconds
            THEN setCurrentTime(newClip.timelinePositionSeconds)
            ELSE setCurrentTime(newClip.timelinePositionSeconds
                                    + getClipDuration(newClip))

\* A start clamp without the upper bound out - 0.1 s.
clampTrimStartAtZeroOnly(clip, newSourceInPointSeconds) ==
    Max(0, newSourceInPointSeconds)

clampTrimStart(clip, newSourceInPointSeconds) ==
    Max(0, Min(newSourceInPointSeconds,
               clip.sourceOutPointSeconds - MIN_CLIP_LENGTH))

clampTrimEnd(clip, newSourceOutPointSeconds, sourceDuration) ==
    Min(sourceDuration,
        Max(newSourceOutPointSeconds,
            clip.sourceInPointSeconds + MIN_CLIP_LENGTH))

\* A split that also accepts the clip's two edges as split points.
createSplitClipsAtEdges(clip, atTimelineTimeSeconds) ==
    LET clipEnd == clip.timelinePositionSeconds + getClipDuration(clip)
        sourceSplitTime ==
            clip.sourceInPointSeconds
                + (atTimelineTimeSeconds - clip.timelinePositionSeconds)
    IN  IF \/ atTimelineTimeSeconds < clip.timelinePositionSeconds
           \/ atTimelineTimeSeconds > clipEnd
        THEN <<>>
        ELSE <<[clip EXCEPT !.sourceOutPointSeconds = sourceSplitTime,
                            !.trimmed.endSeconds = 0],
               [clip EXCEPT !.id = generateId,
                            !.sourceInPointSeconds = sourceSplitTime,
                            !.timelinePositionSeconds = atTimelineTimeSeconds,
                            !.trimmed.startSeconds = 0]>>

\* A split whose halves both keep the whole trim memory of the clip.
createSplitClipsKeepingTrimmed(clip, atTimelineTimeSeconds) ==
    LET clipEnd == clip.timelinePositionSeconds + getClipDuration(clip)
        sourceSplitTime ==
            clip.sourceInPointSeconds
                + (atTimelineTimeSeconds - clip.timelinePositionSeconds)
    IN  IF \/ atTimelineTimeSeconds <= clip.timelinePositionSeconds
           \/ atTimelineTimeSeconds >= clipEnd
        THEN <<>>
        ELSE <<[clip EXCEPT !.sourceOutPointSeconds = sourceSplitTime],
               [clip EXCEPT !.id = generateId,
                            !.sourceInPointSeconds = sourceSplitTime,
                            !.timelinePositionSeconds = atTimelineTimeSeconds]>>

\* createSplitClips: << >> is the source's null.
createSplitClips(clip, atTimelineTimeSeconds) ==
    LET clipEnd == clip.timelinePositionSeconds + getClipDuration(clip)
        splitOffset == atTimelineTimeSeconds - clip.timelinePositionSeconds
        sourceSplitTime == clip.sourceInPointSeconds + splitOffset
        firstClip ==
            [clip EXCEPT !.sourceOutPointSeconds = sourceSplitTime,
                         !.trimmed = [startSeconds |-> clip.trimmed.startSeconds,
                                      endSeconds |-> 0]]
        secondClip ==
            [clip EXCEPT !.id = generateId,
                         !.sourceInPointSeconds = sourceSplitTime,
                         !.timelinePositionSeconds = atTimelineTimeSeconds,
                         !.trimmed = [startSeconds |-> 0,
                                      endSeconds |-> clip.trimmed.endSeconds]]
    IN  IF \/ atTimelineTimeSeconds <= clip.timelinePositionSeconds
           \/ atTimelineTimeSeconds >= clipEnd
        THEN <<>>
        ELSE <<firstClip, secondClip>>

\* A start trim whose memory grows by the requested move, not the clamped one.
trimStartOfClipRememberingRequest(clip, newSourceInPointSeconds) ==
    LET clampedInPoint == clampTrimStart(clip, newSourceInPointSeconds)
        minAllowedInPoint == clip.sourceInPointSeconds - clip.trimmed.startSeconds
        finalInPoint == Max(minAllowedInPoint, clampedInPoint)
        delta == finalInPoint - clip.sourceInPointSeconds
    IN  IF delta = 0 THEN clip
        ELSE [clip EXCEPT !.sourceInPointSeconds = finalInPoint,
                          !.trimmed.startSeconds =
                              Max(0, clip.trimmed.startSeconds
                                         + (newSourceInPointSeconds
                                                - clip.sourceInPointSeconds))]

\* The clip the map callback of trimClipStart returns for the clip it trims.
trimStartOfClip(clip, newSourceInPointSeconds) ==
    LET clampedInPoint == clampTrimStart(clip, newSourceInPointSeconds)
        minAllowedInPoint == clip.sourceInPointSeconds - clip.trimmed.startSeconds
        finalInPoint == Max(minAllowedInPoint, clampedInPoint)
        delta == finalInPoint - clip.sourceInPointSeconds
    IN  IF delta = 0 THEN clip
        ELSE [clip EXCEPT !.sourceInPointSeconds = finalInPoint,
                          !.trimmed.startSeconds =
                              Max(0, clip.trimmed.startSeconds + delta)]

\* An end trim that moves the out point and leaves the trim memory as it was.
trimEndOfClipWithoutMemory(clip, newSourceOutPointSeconds) ==
    IF clip.sourceId \notin DOMAIN sources THEN clip
    ELSE [clip EXCEPT !.sourceOutPointSeconds =
             Min(clip.sourceOutPointSeconds + clip.trimmed.endSeconds,
                 clampTrimEnd(clip, newSourceOutPointSeconds,
                              sources[clip.sourceId].durationInSeconds))]

\* The clip the map callback of trimClipEnd returns for the clip it trims.
trimEndOfClip(clip, newSourceOutPointSeconds) ==
    IF clip.sourceId \notin DOMAIN sources THEN clip
    ELSE
    LET clampedOutPoint ==
            clampTrimEnd(clip, newSourceOutPointSeconds,
                         sources[clip.sourceId].durationInSeconds)
        maxAllowedOutPoint == clip.sourceOutPointSeconds + clip.trimmed.endSeconds
        finalOutPoint == Min(maxAllowedOutPoint, clampedOutPoint)
        delta == clip.sourceOutPointSeconds - finalOutPoint
    IN  IF delta = 0 THEN clip
        ELSE [clip EXCEPT !.sourceOutPointSeconds = finalOutPoint,
                          !.trimmed.endSeconds =
                              Max(0, clip.trimmed.endSeconds + delta)]

(***************************************************************************)
(* timelineStore.ts: the options given to zundo's temporal middleware, and *)
(* what the middleware does with them.                                     *)
(***************************************************************************)
\* partialize: the part of the store a snapshot keeps.
partialize(cs, regions) ==
    [clips |-> cs,
     colorRegions |->
        [i \in 1..Len(regions) |->
            [id |-> regions[i].id,
             clipId |-> regions[i].clipId,
             isProcessing |-> regions[i].isProcessing]]]

\* A serialisation that keeps the clips' ids only.
idsOnly(cs) == [i \in 1..Len(cs) |-> cs[i].id]

\* JSON.stringify of a clip list: the clips' values in key order.
JSONstringify(cs) ==
    [i \in 1..Len(cs) |->
        <<cs[i].id, cs[i].sourceId, cs[i].sourceInPointSeconds,
          cs[i].sourceOutPointSeconds, cs[i].timelinePositionSeconds,
          cs[i].trimmed.startSeconds, cs[i].trimmed.endSeconds>>]

\* Equality by reference: two partialized states are never the same object.
referenceEqual(a, b) == FALSE

shallowEqualColorRegions(a, b) ==
    /\ JSONstringify(a.clips) = JSONstringify(b.clips)
    /\ Len(a.colorRegions) = Len(b.colorRegions)
    /\ \A i \in 1..Len(a.colorRegions) :
           /\ a.colorRegions[i].id = b.colorRegions[i].id
           /\ a.colorRegions[i].clipId = b.colorRegions[i].clipId
           /\ a.colorRegions[i].isProcessing = b.colorRegions[i].isProcessing

\* A history that records without a limit.
handleSetUnlimited(past, pastState) == Append(past, pastState)

\* The past states after _handleSet has recorded pastState under `limit`.
handleSet(past, pastState) ==
    Append(IF Len(past) >= Limit THEN Tail(past) ELSE past, pastState)

\* A `set` that records the past state and keeps the future states.
TimelineSetKeepingFuture(newClips, newSelectedClipId, newColorRegions) ==
    LET pastState == partialize(clips, colorRegions)
        currentState == partialize(newClips, newColorRegions)
    IN  /\ clips' = newClips
        /\ selectedClipId' = newSelectedClipId
        /\ colorRegions' = newColorRegions
        /\ futureStates' = futureStates
        /\ IF shallowEqualColorRegions(pastState, currentState)
           THEN pastStates' = pastStates
           ELSE pastStates' = Append(pastStates, pastState)

\* The store's `set` as the middleware wraps it: apply the update, then record
\* the state before it unless `equality` finds the tracked part unchanged.
TimelineSet(newClips, newSelectedClipId, newColorRegions) ==
    LET pastState == partialize(clips, colorRegions)
        currentState == partialize(newClips, newColorRegions)
    IN  /\ clips' = newClips
        /\ selectedClipId' = newSelectedClipId
        /\ colorRegions' = newColorRegions
        /\ IF shallowEqualColorRegions(pastState, currentState)
           THEN UNCHANGED <<pastStates, futureStates>>
           ELSE /\ pastStates' = handleSet(pastStates, pastState)
                /\ futureStates' = <<>>

\* A handler that returns before it reaches `set`.
NoSet == UNCHANGED <<clips, selectedClipId, colorRegions, pastStates, futureStates>>

MutationOps == {"addClip", "removeClip", "clearClips", "reorderClips",
                "splitClip", "trimClipStart", "trimClipEnd"}

(***************************************************************************)
(* `last` records the operation that produced the state: its name and      *)
(* arguments, the clip list and playhead it was applied to, and            *)
(*   chain: "undone" after an undo that directly follows a mutation that   *)
(*          changed the clip list, "redone" after the redo that directly   *)
(*          follows that undo, "branched" after a mutation that dropped a  *)
(*          non-empty redo list, "redoAfterBranch" after a redo that       *)
(*          directly follows such a mutation;                              *)
(*   cut:   the last split (its two halves and the source time they share) *)
(*          for as long as no clip was removed and no snapshot restored.   *)
(***************************************************************************)
NoCut == [left |-> 0, right |-> 0, point |-> 0]

chainOf(name) ==
    IF name = "undo"
    THEN IF last.op \in MutationOps /\ last.clips # clips
         THEN "undone" ELSE "none"
    ELSE IF name = "redo"
    THEN IF last.chain = "undone" THEN "redone"
         ELSE IF last.chain = "branched" THEN "redoAfterBranch"
         ELSE "none"
    ELSE IF name \in MutationOps /\ futureStates # <<>> /\ futureStates' = <<>>
    THEN "branched"
    ELSE "none"

Op(name, clipId, arg) ==
    [op |-> name, clipId |-> clipId, arg |-> arg,
     clips |-> clips, currentTime |-> currentTime,
     chain |-> chainOf(name),
     cut |-> IF name \in {"undo", "redo", "removeClip", "clearClips"}
             THEN NoCut ELSE last.cut]

\* What is kept of an operation of the playback store: its name and argument.
PlaybackOp(name, arg) ==
    [op |-> name, clipId |-> 0, arg |-> arg, clips |-> <<>>, currentTime |-> 0,
     chain |-> "none", cut |-> last.cut]

\* No exportVideo call has been made.
NoFrame == [index |-> 0, elapsed |-> 0, drawn |-> FALSE, sourceTime |-> 0]

NoRecording ==
    [stage |-> "none", settled |-> "pending", clips |-> <<>>, totalDuration |-> 0,
     mimeTypeSupported |-> TRUE, videoElements |-> {}, acquired |-> {},
     teardowns |-> 0, stops |-> 0, signalAborted |-> FALSE, listening |-> FALSE,
     isAborted |-> FALSE, recorderActive |-> FALSE, looping |-> FALSE,
     timer |-> FALSE, stopEvent |-> FALSE, fixing |-> FALSE, elapsed |-> 0,
     currentClipIndex |-> 1, frames |-> 0, frame |-> NoFrame, previous |-> NoFrame]

\* No mask function has been applied.
NoMasks ==
    [step |-> "none", input |-> <<>>, combined |-> <<>>, regions |-> <<>>,
     sourceTime |-> 0, exportDrawn |-> FALSE, exported |-> <<>>,
     previewDrawn |-> FALSE, previewed |-> <<>>]

\* useSegmentationStore after construction.
NoPendingProcess == [clipId |-> 0, startTime |-> 0, endTime |-> 0]

NoJob == [phase |-> "none", regionId |-> 0, startTime |-> 0, fps |-> 0,
          totalFrames |-> 0, i |-> 0, outcome |-> "none", skipped |-> 0]

NoSegmentation ==
    [isActive |-> FALSE, isReady |-> FALSE, clipId |-> 0, imageData |-> FALSE,
     previewMask |-> 0, isProcessing |-> FALSE, processingRegionId |-> 0,
     showModal |-> FALSE, pendingProcess |-> NoPendingProcess,
     isPreviewProcessing |-> FALSE, inflight |-> 0, outstanding |-> 0,
     modelsLoaded |-> FALSE, loading |-> FALSE,
     asked |-> [action |-> "none", coordinate |-> 0],
     job |-> NoJob]

\* useVideoPlayback before anything is loaded.
NoPlayer ==
    [deps |-> [currentTime |-> 0, clips |-> <<>>, isPlaying |-> FALSE],
     timers |-> 0, clip |-> [id |-> 0], sourceId |-> "",
     video |-> [currentTime |-> 0, paused |-> TRUE],
     frameRequested |-> FALSE, played |-> <<>>]

(***************************************************************************)
(* sourceStore addSource: the sources once the file's metadata probe has   *)
(* succeeded.  The file's name stands for the generated source id.         *)
(***************************************************************************)
addSource(file) ==
    [s \in DOMAIN sources \cup {file} |->
        IF s = file
        THEN [id |-> file, durationInSeconds |-> FileDurations[file]]
        ELSE sources[s]]

(***************************************************************************)
(* playbackStore.                                                          *)
(***************************************************************************)
Seek(time) ==
    /\ currentTime' = Max(0, time)
    /\ isPlaying' = FALSE
    /\ last' = PlaybackOp("seek", time)
    /\ UNCHANGED <<sources, clips, selectedClipId, colorRegions, pastStates,
                   futureStates, others>>

(***************************************************************************)
(* clipSlice.ts: the operations.                                           *)
(***************************************************************************)
NewClip(sourceId) ==
    [id |-> generateId,
     sourceId |-> sourceId,
     sourceInPointSeconds |-> 0,
     sourceOutPointSeconds |-> 0,
     timelinePositionSeconds |-> 0,
     trimmed |-> [startSeconds |-> 0, endSeconds |-> 0]]

\* An addClip that puts the new clip in front of the others.
clipsWithNewClipInFront(registry, sourceId) ==
    recalculatePositions(
        <<[NewClip(sourceId) EXCEPT !.sourceOutPointSeconds =
               registry[sourceId].durationInSeconds]>> \o clips)

\* The clip list addClip sets, given the source registry it looks the id up in.
clipsWithNewClip(registry, sourceId) ==
    recalculatePositions(Append(clips,
        [NewClip(sourceId) EXCEPT !.sourceOutPointSeconds =
            registry[sourceId].durationInSeconds]))

AddClip(sourceId) ==
    /\ IF sourceId \notin DOMAIN sources
       THEN NoSet
       ELSE TimelineSet(clipsWithNewClip(sources, sourceId),
                        selectedClipId, colorRegions)
    /\ last' = Op("addClip", 0, sourceId)
    /\ UNCHANGED <<sources, currentTime, isPlaying, others>>

\* useSources loadVideo: addSource, seek(0) when the timeline is empty, addClip.
LoadVideo(file) ==
    /\ file \notin DOMAIN sources
    /\ sources' = addSource(file)
    /\ IF Len(clips) = 0
       THEN currentTime' = Max(0, 0) /\ isPlaying' = FALSE
       ELSE UNCHANGED <<currentTime, isPlaying>>
    /\ TimelineSet(clipsWithNewClip(sources', file), selectedClipId, colorRegions)
    /\ last' = Op("addClip", 0, file)
    /\ UNCHANGED others

filterOut(cs, clipId) == SelectSeq(cs, LAMBDA c : c.id # clipId)

\* A removeClip that clears the selection whichever clip it removes.
RemoveClipAndSelection(clipId) ==
    /\ TimelineSet(recalculatePositions(filterOut(clips, clipId)), 0, colorRegions)
    /\ last' = Op("removeClip", clipId, 0)
    /\ UNCHANGED <<sources, currentTime, isPlaying, others>>

RemoveClip(clipId) ==
    /\ TimelineSet(recalculatePositions(filterOut(clips, clipId)),
                   IF selectedClipId = clipId THEN 0 ELSE selectedClipId,
                   colorRegions)
    /\ last' = Op("removeClip", clipId, 0)
    /\ UNCHANGED <<sources, currentTime, isPlaying, others>>

ClearClips ==
    /\ TimelineSet(<<>>, 0, colorRegions)
    /\ last' = Op("clearClips", 0, 0)
    /\ UNCHANGED <<sources, currentTime, isPlaying, others>>

SelectClip(clipId) ==
    /\ TimelineSet(clips, clipId, colorRegions)
    /\ last' = Op("selectClip", clipId, 0)
    /\ UNCHANGED <<sources, currentTime, isPlaying, others>>

\* A move that exchanges the two clips.
spliceSwap(cs, oldIndex, newIndex) ==
    [i \in 1..Len(cs) |->
        IF i = oldIndex THEN cs[newIndex]
        ELSE IF i = newIndex THEN cs[oldIndex]
        ELSE cs[i]]

\* splice(oldIndex, 1) followed by splice(newIndex, 0, movedClip).
spliceMove(cs, oldIndex, newIndex) ==
    LET without == SubSeq(cs, 1, oldIndex - 1) \o SubSeq(cs, oldIndex + 1, Len(cs))
    IN  SubSeq(without, 1, newIndex - 1) \o <<cs[oldIndex]>>
            \o SubSeq(without, newIndex, Len(without))

ReorderClips(activeId, overId) ==
    /\ IF activeId = overId
       THEN NoSet
       ELSE LET oldIndex == findIndex(clips, activeId)
                newIndex == findIndex(clips, overId)
            IN  IF oldIndex = 0 \/ newIndex = 0
                THEN TimelineSet(clips, selectedClipId, colorRegions)
                ELSE TimelineSet(
                         recalculatePositions(spliceMove(clips, oldIndex, newIndex)),
                         selectedClipId, colorRegions)
    /\ last' = Op("reorderClips", activeId, overId)
    /\ UNCHANGED <<sources, currentTime, isPlaying, others>>

TrimClipStart(clipId, newSourceInPointSeconds) ==
    LET updatedClips ==
            recalculatePositions(
                [i \in 1..Len(clips) |->
                    IF clips[i].id # clipId THEN clips[i]
                    ELSE trimStartOfClip(clips[i], newSourceInPointSeconds)])
    IN  /\ TimelineSet(updatedClips, selectedClipId, colorRegions)
        /\ currentTime' = adjustPlayheadForTrim(clipId, clips, updatedClips, currentTime)
        /\ last' = Op("trimClipStart", clipId, newSourceInPointSeconds)
        /\ UNCHANGED <<sources, isPlaying, others>>

TrimClipEnd(clipId, newSourceOutPointSeconds) ==
    LET updatedClips ==
            recalculatePositions(
                [i \in 1..Len(clips) |->
                    IF clips[i].id # clipId THEN clips[i]
                    ELSE trimEndOfClip(clips[i], newSourceOutPointSeconds)])
    IN  /\ TimelineSet(updatedClips, selectedClipId, colorRegions)
        /\ currentTime' = adjustPlayheadForTrim(clipId, clips, updatedClips, currentTime)
        /\ last' = Op("trimClipEnd", clipId, newSourceOutPointSeconds)
        /\ UNCHANGED <<sources, isPlaying, others>>

\* A split that drops the clip and puts the two halves at the end of the list.
flatMapSplitAtEnd(cs, clipId, pair) == filterOut(cs, clipId) \o pair

\* flatMap((c) => c.id === clipId ? [firstClip, secondClip] : [c])
RECURSIVE flatMapSplit(_, _, _)
flatMapSplit(cs, clipId, pair) ==
    IF cs = <<>> THEN <<>>
    ELSE (IF Head(cs).id = clipId THEN pair ELSE <<Head(cs)>>)
             \o flatMapSplit(Tail(cs), clipId, pair)

SplitClip(clipId, atTimelineTimeSeconds) ==
    /\ LET idx == findIndex(clips, clipId)
       IN  IF idx = 0 THEN NoSet
           ELSE LET splitResult == createSplitClips(clips[idx], atTimelineTimeSeconds)
                IN  IF splitResult = <<>> THEN NoSet
                    ELSE TimelineSet(
                             recalculatePositions(flatMapSplit(clips, clipId, splitResult)),
                             selectedClipId, colorRegions)
    /\ last' = IF clips' = clips
               THEN Op("splitClip", clipId, atTimelineTimeSeconds)
               ELSE [Op("splitClip", clipId, atTimelineTimeSeconds) EXCEPT
                        !.cut = [left |-> clipId, right |-> generateId,
                                 point |-> clips'[findIndex(clips', clipId)]
                                               .sourceOutPointSeconds]]
    /\ UNCHANGED <<sources, currentTime, isPlaying, others>>

(***************************************************************************)
(* colorSlice.ts.  A region is a record; a field a JavaScript object does  *)
(* not have (undefined) is a field the record does not have.               *)
(***************************************************************************)
\* The region confirmProcessing creates for a clip.
NewRegion(clipId, totalFrames) ==
    [id |-> generateRegionId,
     clipId |-> clipId,
     frameMasks |-> <<>>,
     isProcessing |-> TRUE,
     totalFrames |-> totalFrames,
     processedFrames |-> 0]

\* { ...r, name: value }
withField(r, name, value) ==
    [f \in DOMAIN r \cup {name} |-> IF f = name THEN value ELSE r[f]]

AddColorRegion(clipId, totalFrames) ==
    /\ TimelineSet(clips, selectedClipId,
                   Append(colorRegions, NewRegion(clipId, totalFrames)))
    /\ last' = Op("addColorRegion", clipId, totalFrames)
    /\ UNCHANGED <<sources, currentTime, isPlaying, others>>

RemoveColorRegion(id) ==
    /\ TimelineSet(clips, selectedClipId,
                   SelectSeq(colorRegions, LAMBDA r : r.id # id))
    /\ last' = Op("removeColorRegion", id, 0)
    /\ UNCHANGED <<sources, currentTime, isPlaying, others>>

\* frameMask is << >> when the optional argument is absent, <<m>> otherwise.
\* Spreading r.frameMasks of a region that has none throws inside the updater,
\* so that `set` never happens.
progressThrows(id, frameMask) ==
    \E i \in 1..Len(colorRegions) :
        /\ colorRegions[i].id = id
        /\ frameMask # <<>>
        /\ "frameMasks" \notin DOMAIN colorRegions[i]

regionWithProgress(r, processedFrames, frameMask) ==
    IF frameMask # <<>>
    THEN withField(withField(r, "processedFrames", processedFrames),
                   "frameMasks", r.frameMasks \o frameMask)
    ELSE withField(r, "processedFrames", processedFrames)

UpdateColorRegionProgress(id, processedFrames, frameMask) ==
    /\ IF progressThrows(id, frameMask)
       THEN NoSet
       ELSE TimelineSet(clips, selectedClipId,
                [i \in 1..Len(colorRegions) |->
                    IF colorRegions[i].id # id THEN colorRegions[i]
                    ELSE regionWithProgress(colorRegions[i], processedFrames,
                                            frameMask)])
    /\ last' = Op("updateColorRegionProgress", id, processedFrames)
    /\ UNCHANGED <<sources, currentTime, isPlaying, others>>

SetColorRegionComplete(id) ==
    /\ TimelineSet(clips, selectedClipId,
            [i \in 1..Len(colorRegions) |->
                IF colorRegions[i].id # id THEN colorRegions[i]
                ELSE withField(colorRegions[i], "isProcessing", FALSE)])
    /\ last' = Op("setColorRegionComplete", id, 0)
    /\ UNCHANGED <<sources, currentTime, isPlaying, others>>

(***************************************************************************)
(* useKeyboardShortcuts handleUndo / handleRedo: temporal.undo() and       *)
(* temporal.redo() of the middleware, one step each.  The snapshot is      *)
(* merged into the store with the unwrapped `set`, so nothing is recorded. *)
(***************************************************************************)
Undo ==
    /\ IF Len(pastStates) > 0
       THEN LET currentState == partialize(clips, colorRegions)
                nextState == pastStates[Len(pastStates)]
            IN  /\ clips' = nextState.clips
                /\ colorRegions' = nextState.colorRegions
                /\ pastStates' = SubSeq(pastStates, 1, Len(pastStates) - 1)
                /\ futureStates' = Append(futureStates, currentState)
                /\ UNCHANGED selectedClipId
       ELSE NoSet
    /\ last' = Op("undo", 0, 0)
    /\ UNCHANGED <<sources, currentTime, isPlaying, others>>

Redo ==
    /\ IF Len(futureStates) > 0
       THEN LET currentState == partialize(clips, colorRegions)
                nextState == futureStates[Len(futureStates)]
            IN  /\ clips' = nextState.clips
                /\ colorRegions' = nextState.colorRegions
                /\ futureStates' = SubSeq(futureStates, 1, Len(futureStates) - 1)
                /\ pastStates' = Append(pastStates, currentState)
                /\ UNCHANGED selectedClipId
       ELSE NoSet
    /\ last' = Op("redo", 0, 0)
    /\ UNCHANGED <<sources, currentTime, isPlaying, others>>

(***************************************************************************)
(* The state after the stores are created.                                 *)
(***************************************************************************)
Init ==
    /\ sources = <<>>
    /\ clips = <<>>
    /\ selectedClipId = 0
    /\ colorRegions = <<>>
    /\ pastStates = <<>>
    /\ futureStates = <<>>
    /\ currentTime = 0
    /\ isPlaying = FALSE
    /\ last = [op |-> "init", clipId |-> 0, arg |-> 0, clips |-> <<>>,
               currentTime |-> 0, chain |-> "none", cut |-> NoCut]
    /\ view = [pixelsPerSecond |-> 50, step |-> "none", playheadTime |-> 0,
               positionInPixels |-> 0, pointedTime |-> 0]
    /\ exportStore = [state |-> "idle", error |-> FALSE, abortController |-> 0]
    /\ exportRuns = {}
    /\ recording = NoRecording
    /\ masks = NoMasks
    /\ segmentation = NoSegmentation
    /\ player = NoPlayer

\* Clip ids given to the operations: those of the clips on the timeline.
ClipArgs == ClipIdsOf(clips)

storeVars == <<clips, selectedClipId, colorRegions, pastStates, futureStates,
               currentTime, isPlaying>>

\* The calls explored are those that change a store (and a redo that directly
\* follows a mutation, whatever it does).
Changes == storeVars' # storeVars

\* Mutations are cut off once MaxHistory snapshots are recorded.
HistoryOpen == Len(pastStates) < MaxHistory

(***************************************************************************)
(* Spec: every operation on the clip list, with undo and redo.             *)
(***************************************************************************)
Next ==
    \/ \E file \in SourceFiles :
          HistoryOpen /\ Len(clips) < MaxClips /\ LoadVideo(file)
    \/ \E sourceId \in DOMAIN sources :
          HistoryOpen /\ Len(clips) < MaxClips /\ AddClip(sourceId) /\ Changes
    \/ \E clipId \in ClipArgs : HistoryOpen /\ RemoveClip(clipId) /\ Changes
    \/ HistoryOpen /\ ClearClips /\ Changes
    \/ \E activeId \in ClipArgs, overId \in ClipArgs :
          HistoryOpen /\ ReorderClips(activeId, overId) /\ Changes
    \/ \E clipId \in ClipArgs, request \in TrimStartRequests :
          HistoryOpen /\ TrimClipStart(clipId, request) /\ Changes
    \/ \E clipId \in ClipArgs, request \in TrimEndRequests :
          HistoryOpen /\ TrimClipEnd(clipId, request) /\ Changes
    \/ \E clipId \in ClipArgs, time \in SplitTimes :
          HistoryOpen /\ Len(clips) < MaxClips /\ SplitClip(clipId, time) /\ Changes
    \/ Undo /\ Changes
    \/ Redo /\ (Changes \/ last.op \in MutationOps)

Spec == Init /\ [][Next]_vars

(***************************************************************************)
(* SpecTrim: trims and splits under a playhead that is moved about.        *)
(***************************************************************************)
TrimHistoryOpen == Len(pastStates) < MaxTrimHistory

NextTrim ==
    \/ \E file \in SourceFiles :
          TrimHistoryOpen /\ Len(clips) < MaxClips /\ LoadVideo(file)
    \/ \E time \in SeekTimes : Seek(time) /\ Changes
    \/ \E clipId \in ClipArgs, request \in TrimStartEdgeRequests :
          TrimHistoryOpen /\ TrimClipStart(clipId, request) /\ Changes
    \/ \E clipId \in ClipArgs, request \in TrimEndEdgeRequests :
          TrimHistoryOpen /\ TrimClipEnd(clipId, request) /\ Changes
    \/ \E clipId \in ClipArgs, time \in SplitTimes :
          TrimHistoryOpen /\ Len(clips) < MaxClips /\ SplitClip(clipId, time) /\ Changes

SpecTrim == Init /\ [][NextTrim]_vars

(***************************************************************************)
(* SpecHist: one clip whose end is trimmed back and forth, undone and      *)
(* redone, with nothing cutting the history off but `limit` itself.        *)
(***************************************************************************)
NextHist ==
    \/ clips = <<>> /\ LoadVideo("s1")
    \/ \E sourceId \in DOMAIN sources : clips = <<>> /\ AddClip(sourceId)
    \/ \E clipId \in ClipArgs, request \in TrimEndRequests :
          TrimClipEnd(clipId, request) /\ Changes
    \/ Undo /\ Changes
    \/ Redo /\ Changes

SpecHist == Init /\ [][NextHist]_vars

(***************************************************************************)
(* SpecRegions: color regions being tracked while the timeline is edited,  *)
(* undone and redone.                                                      *)
(***************************************************************************)
\* The optional frameMask argument: absent, or one mask.
MaskArgs == {<<>>, <<[frameTimeSeconds |-> 0, mask |-> "m0"]>>}
ProgressArgs == {1, 2}
TotalFramesArgs == {2}

RegionArgs == RegionIdsOf(colorRegions)

MasksOpen(id) ==
    \A i \in 1..Len(colorRegions) :
        (colorRegions[i].id = id /\ "frameMasks" \in DOMAIN colorRegions[i])
            => Len(colorRegions[i].frameMasks) < MaxMasks

NextRegions ==
    \/ \E file \in SourceFiles :
          HistoryOpen /\ Len(clips) < MaxClips /\ LoadVideo(file)
    \/ \E clipId \in ClipArgs, request \in TrimEndRequests :
          HistoryOpen /\ TrimClipEnd(clipId, request) /\ Changes
    \/ \E clipId \in ClipArgs, totalFrames \in TotalFramesArgs :
          HistoryOpen /\ Len(colorRegions) < MaxRegions
              /\ AddColorRegion(clipId, totalFrames)
    \/ \E id \in RegionArgs, processedFrames \in ProgressArgs, frameMask \in MaskArgs :
          (frameMask = <<>> \/ MasksOpen(id))
              /\ UpdateColorRegionProgress(id, processedFrames, frameMask) /\ Changes
    \/ \E id \in RegionArgs : HistoryOpen /\ SetColorRegionComplete(id) /\ Changes
    \/ \E id \in RegionArgs : HistoryOpen /\ RemoveColorRegion(id) /\ Changes
    \/ \E clipId \in ClipArgs : HistoryOpen /\ RemoveClip(clipId) /\ Changes
    \/ HistoryOpen /\ ClearClips /\ Changes
    \/ Undo /\ Changes
    \/ Redo /\ Changes

SpecRegions == Init /\ [][NextRegions]_vars

(***************************************************************************)
(* SpecApi: every call of the clip operations, those that do nothing       *)
(* included: ids no clip carries, sources not registered, split times on   *)
(* and outside the clips' edges, with a selection and a moved playhead.    *)
(***************************************************************************)
\* Clip ids given to the operations: those on the timeline and one no clip has.
ApiClipArgs == ClipIdsOf(clips) \cup {generateId}
ApiSplitTimes == {0, 500, 1000, 1200}
ApiSeekTimes == {500}

ApiHistoryOpen == Len(pastStates) < MaxApiHistory

NextApi ==
    \/ \E file \in SourceFiles :
          ApiHistoryOpen /\ Len(clips) < MaxClips /\ LoadVideo(file)
    \/ \E sourceId \in SourceFiles :
          ApiHistoryOpen /\ Len(clips) < MaxClips /\ AddClip(sourceId)
    \/ \E time \in ApiSeekTimes : Seek(time)
    \/ \E clipId \in ClipIdsOf(clips) \cup {0} : SelectClip(clipId)
    \/ \E clipId \in ApiClipArgs : ApiHistoryOpen /\ RemoveClip(clipId)
    \/ ApiHistoryOpen /\ ClearClips
    \/ \E activeId \in ApiClipArgs, overId \in ApiClipArgs :
          ApiHistoryOpen /\ ReorderClips(activeId, overId)
    \/ \E clipId \in ApiClipArgs, request \in TrimStartRequests :
          ApiHistoryOpen /\ TrimClipStart(clipId, request)
    \/ \E clipId \in ApiClipArgs, request \in TrimEndRequests :
          ApiHistoryOpen /\ TrimClipEnd(clipId, request)
    \/ \E clipId \in ApiClipArgs, time \in ApiSplitTimes :
          ApiHistoryOpen /\ Len(clips) < MaxClips /\ SplitClip(clipId, time)

SpecApi == Init /\ [][NextApi]_vars

(***************************************************************************)
(* SpecReorder: timelines of up to MaxClips clips being reordered.         *)
(***************************************************************************)
ReorderHistoryOpen == Len(pastStates) < MaxReorderHistory

NextReorder ==
    \/ \E file \in SourceFiles :
          ReorderHistoryOpen /\ Len(clips) < MaxClips /\ LoadVideo(file)
    \/ \E sourceId \in SourceFiles :
          ReorderHistoryOpen /\ Len(clips) < MaxClips /\ AddClip(sourceId)
    \/ \E clipId \in ClipArgs, request \in TrimEndRequests :
          ReorderHistoryOpen /\ TrimClipEnd(clipId, request) /\ Changes
    \/ \E activeId \in ApiClipArgs, overId \in ApiClipArgs :
          ReorderHistoryOpen /\ ReorderClips(activeId, overId)

SpecReorder == Init /\ [][NextReorder]_vars

(***************************************************************************)
(* SpecInvalid: calls with ids the timeline does not hold, on a store with *)
(* a selection, a moved playhead and an undo history.  The id given is one *)
(* never issued, or the selected id (the Delete key passes it) when undo   *)
(* has taken the selected clip off the timeline.                           *)
(***************************************************************************)
UnknownClipArgs == ({generateId, selectedClipId} \ ClipIdsOf(clips)) \ {0}

NextInvalid ==
    \/ \E file \in SourceFiles :
          ApiHistoryOpen /\ Len(clips) < MaxClips /\ LoadVideo(file)
    \/ \E sourceId \in SourceFiles :
          ApiHistoryOpen /\ Len(clips) < MaxClips /\ AddClip(sourceId)
    \/ \E time \in ApiSeekTimes : Seek(time)
    \/ \E clipId \in ClipIdsOf(clips) : SelectClip(clipId)
    \/ \E clipId \in UnknownClipArgs : RemoveClip(clipId)
    \/ \E activeId \in ApiClipArgs, overId \in ApiClipArgs :
          (activeId = overId \/ {activeId, overId} \cap UnknownClipArgs # {})
              /\ ReorderClips(activeId, overId)
    \/ \E clipId \in UnknownClipArgs, request \in TrimStartRequests :
          TrimClipStart(clipId, request)
    \/ \E clipId \in UnknownClipArgs, request \in TrimEndRequests :
          TrimClipEnd(clipId, request)
    \/ \E clipId \in UnknownClipArgs, time \in ApiSplitTimes :
          SplitClip(clipId, time)
    \/ Undo /\ Changes

SpecInvalid == Init /\ [][NextInvalid]_vars

(***************************************************************************)
(* lib/utils: the playhead's pixel position and its inverse.  Pixels are   *)
(* counted in thousandths, so that milliseconds * pixelsPerSecond is a     *)
(* pixel position; the division by pixelsPerSecond is the integer one.     *)
(***************************************************************************)
\* The loop of calculatePlayheadVisualPosition from clip i on.
RECURSIVE playheadLoop(_, _, _, _, _)
playheadLoop(i, visualOffset, timelineTimeSeconds, cs, pixelsPerSecond) ==
    IF i > Len(cs)
    THEN (timelineTimeSeconds + visualOffset) * pixelsPerSecond
    ELSE
    LET clip == cs[i]
        clipEnd == clip.timelinePositionSeconds + getClipDuration(clip)
        trimmedStart == clip.trimmed.startSeconds
        trimmedEnd == clip.trimmed.endSeconds
    IN  IF timelineTimeSeconds >= clipEnd
        THEN IF i = Len(cs)
             THEN (clipEnd + visualOffset + trimmedStart) * pixelsPerSecond
             ELSE playheadLoop(i + 1, visualOffset + trimmedStart + trimmedEnd,
                               timelineTimeSeconds, cs, pixelsPerSecond)
        ELSE IF timelineTimeSeconds >= clip.timelinePositionSeconds
        THEN (timelineTimeSeconds + visualOffset + trimmedStart) * pixelsPerSecond
        ELSE (timelineTimeSeconds + visualOffset) * pixelsPerSecond

calculatePlayheadVisualPosition(timelineTimeSeconds, cs, pixelsPerSecond) ==
    IF Len(cs) = 0
    THEN timelineTimeSeconds * pixelsPerSecond
    ELSE playheadLoop(1, 0, timelineTimeSeconds, cs, pixelsPerSecond)

\* A clip's visual start taken without the room of its trimmed start.
clipVisualStartUntrimmed(accumulatedVisualTime, clip) == accumulatedVisualTime

clipVisualStart(accumulatedVisualTime, clip) ==
    accumulatedVisualTime + clip.trimmed.startSeconds

\* The loop of calculateTimelineTimeFromVisualPosition from clip i on.
RECURSIVE timelineTimeLoop(_, _, _, _, _)
timelineTimeLoop(i, accumulatedVisualTime, accumulatedTrimOffset, visualSeconds, cs) ==
    IF i > Len(cs)
    THEN IF Len(cs) > 0
         THEN cs[Len(cs)].timelinePositionSeconds + getClipDuration(cs[Len(cs)])
         ELSE visualSeconds - accumulatedTrimOffset
    ELSE
    LET clip == cs[i]
        clipDuration == getClipDuration(clip)
        visualStart == clipVisualStart(accumulatedVisualTime, clip)
        clipVisualEnd == visualStart + clipDuration
        clipVisualFullEnd == clipVisualEnd + clip.trimmed.endSeconds
    IN  IF visualSeconds < visualStart
        THEN clip.timelinePositionSeconds
        ELSE IF visualSeconds >= visualStart /\ visualSeconds < clipVisualEnd
        THEN clip.timelinePositionSeconds + (visualSeconds - visualStart)
        ELSE IF visualSeconds >= clipVisualEnd /\ visualSeconds < clipVisualFullEnd
        THEN clip.timelinePositionSeconds + clipDuration
        ELSE timelineTimeLoop(i + 1, clipVisualFullEnd,
                 accumulatedTrimOffset + clip.trimmed.startSeconds
                     + clip.trimmed.endSeconds,
                 visualSeconds, cs)

calculateTimelineTimeFromVisualPosition(visualPixels, cs, pixelsPerSecond) ==
    IF Len(cs) = 0 \/ pixelsPerSecond = 0
    THEN visualPixels \div pixelsPerSecond
    ELSE timelineTimeLoop(1, 0, 0, visualPixels \div pixelsPerSecond, cs)

(***************************************************************************)
(* SpecView: the two conversions applied, one after the other, to the      *)
(* times of clip arrangements with and without trimmed regions.            *)
(***************************************************************************)
\* The clips the arrangements are made of: length, trimmed start, trimmed end.
ViewClipShapes ==
    [length : {100, 400}, trimmedStart : {0, 300}, trimmedEnd : {0, 200}]

ViewArrangements ==
    UNION {[1..n -> ViewClipShapes] : n \in 0..MaxViewClips}

\* The contiguous clip list of an arrangement, cut from source s1.
clipsOfArrangement(a) ==
    recalculatePositions(
        [i \in 1..Len(a) |->
            [id |-> i,
             sourceId |-> "s1",
             sourceInPointSeconds |-> a[i].trimmedStart,
             sourceOutPointSeconds |-> a[i].trimmedStart + a[i].length,
             timelinePositionSeconds |-> 0,
             trimmed |-> [startSeconds |-> a[i].trimmedStart,
                          endSeconds |-> a[i].trimmedEnd]]])

ViewPixelsPerSecond == {MIN_PIXELS_PER_SECOND, 50, MAX_PIXELS_PER_SECOND}

\* Timeline times from 0 to the total duration, the clips' edges among them.
ViewTimes == {t \in {50 * k : k \in 0..16} : t <= calculateTotalDuration(clips)}

InitView ==
    /\ sources = [s \in {"s1"} |->
                     [id |-> s, durationInSeconds |-> FileDurations[s]]]
    /\ \E a \in ViewArrangements : clips = clipsOfArrangement(a)
    /\ selectedClipId = 0
    /\ colorRegions = <<>>
    /\ pastStates = <<>>
    /\ futureStates = <<>>
    /\ currentTime = 0
    /\ isPlaying = FALSE
    /\ last = [op |-> "init", clipId |-> 0, arg |-> 0, clips |-> <<>>,
               currentTime |-> 0, chain |-> "none", cut |-> NoCut]
    /\ \E pps \in ViewPixelsPerSecond :
           view = [pixelsPerSecond |-> pps, step |-> "none", playheadTime |-> 0,
                   positionInPixels |-> 0, pointedTime |-> 0]
    /\ exportStore = [state |-> "idle", error |-> FALSE, abortController |-> 0]
    /\ exportRuns = {}
    /\ recording = NoRecording
    /\ masks = NoMasks
    /\ segmentation = NoSegmentation
    /\ player = NoPlayer

\* The playhead is drawn for timeline time t.
PlacePlayhead(t) ==
    /\ view' = [view EXCEPT
                   !.step = "placed",
                   !.playheadTime = t,
                   !.positionInPixels =
                       calculatePlayheadVisualPosition(t, clips, view.pixelsPerSecond)]
    /\ UNCHANGED <<sources, clips, selectedClipId, colorRegions, pastStates,
                   futureStates, currentTime, isPlaying, last, exportStore,
                   exportRuns, recording, masks, segmentation, player>>

\* The pointer is put where the playhead was drawn.
PointAtPlayhead ==
    /\ view.step = "placed"
    /\ view' = [view EXCEPT
                   !.step = "pointed",
                   !.pointedTime =
                       calculateTimelineTimeFromVisualPosition(
                           view.positionInPixels, clips, view.pixelsPerSecond)]
    /\ UNCHANGED <<sources, clips, selectedClipId, colorRegions, pastStates,
                   futureStates, currentTime, isPlaying, last, exportStore,
                   exportRuns, recording, masks, segmentation, player>>

NextView ==
    \/ \E t \in ViewTimes : PlacePlayhead(t)
    \/ PointAtPlayhead

SpecView == InitView /\ [][NextView]_vars

(***************************************************************************)
(* exportStore.ts.  A startExport call that has not settled is a run:      *)
(*   controller: the AbortController it created (a number; 0 is null);     *)
(*   phase: "started" until its synchronous part has run (nothing else     *)
(*          runs in between), "setup" while exportVideo awaits             *)
(*          setupExportResources, "recording" once recordTimeline has      *)
(*          attached its abort listener;                                   *)
(*   aborted: controller.signal.aborted.                                   *)
(***************************************************************************)
ExportOp(name) == PlaybackOp(name, 0)

newAbortController ==
    CHOOSE n \in 1..(Cardinality(exportRuns) + 2) :
        /\ n # exportStore.abortController
        /\ \A r \in exportRuns : r.controller # n
        /\ \A m \in 1..(n - 1) :
               m = exportStore.abortController
                   \/ \E r \in exportRuns : r.controller = m

\* A catch block that reports every rejection as an error.
catchReportingAll(run) == [state |-> "error", error |-> TRUE, abortController |-> 0]

\* The catch block of startExport, for the run whose try block threw.
catchOf(run) ==
    IF run.aborted
    THEN [state |-> "idle", error |-> FALSE, abortController |-> 0]
    ELSE [state |-> "error", error |-> TRUE, abortController |-> 0]

\* startExport up to the set that announces the export.
StartExport ==
    /\ IF exportStore.state = "exporting"
       THEN UNCHANGED <<exportStore, exportRuns>>
       ELSE /\ exportStore' = [state |-> "exporting", error |-> FALSE,
                               abortController |-> newAbortController]
            /\ exportRuns' = exportRuns \cup
                   {[controller |-> newAbortController, phase |-> "started",
                     aborted |-> FALSE]}
    /\ last' = ExportOp("startExport")
    /\ UNCHANGED <<sources, clips, selectedClipId, colorRegions, pastStates,
                   futureStates, currentTime, isPlaying, view, recording,
                   masks, segmentation, player>>

\* startExport from there to its first wait: the checks that throw, or
\* exportVideo reaching `await setupExportResources`.
StartExportContinues(run) ==
    /\ run.phase = "started"
    /\ IF \/ Len(clips) = 0
          \/ \A i \in 1..Len(clips) : clips[i].sourceId \notin DOMAIN sources
       THEN /\ exportStore' = catchOf(run)
            /\ exportRuns' = exportRuns \ {run}
       ELSE /\ exportRuns' = (exportRuns \ {run})
                                 \cup {[run EXCEPT !.phase = "setup"]}
            /\ UNCHANGED exportStore
    /\ UNCHANGED <<sources, clips, selectedClipId, colorRegions, pastStates,
                   futureStates, currentTime, isPlaying, last, view,
                   recording, masks, segmentation, player>>

\* setupExportResources resolves; recordTimeline adds its abort listener.
SetupSucceeds(run) ==
    /\ run.phase = "setup"
    /\ exportRuns' = (exportRuns \ {run}) \cup {[run EXCEPT !.phase = "recording"]}
    /\ UNCHANGED <<sources, clips, selectedClipId, colorRegions, pastStates,
                   futureStates, currentTime, isPlaying, last, view, exportStore,
                   recording, masks, segmentation, player>>

\* A video fails to load, or the recorder reports an error: exportVideo rejects.
ExportFails(run) ==
    /\ run.phase \in {"setup", "recording"}
    /\ exportStore' = catchOf(run)
    /\ exportRuns' = exportRuns \ {run}
    /\ last' = ExportOp("exportFails")
    /\ UNCHANGED <<sources, clips, selectedClipId, colorRegions, pastStates,
                   futureStates, currentTime, isPlaying, view, recording,
                   masks, segmentation, player>>

\* The recorder stops at the end of the timeline: exportVideo resolves.
ExportCompletes(run) ==
    /\ run.phase = "recording"
    /\ exportStore' = [exportStore EXCEPT !.state = "complete",
                                          !.abortController = 0]
    /\ exportRuns' = exportRuns \ {run}
    /\ last' = ExportOp("exportCompletes")
    /\ UNCHANGED <<sources, clips, selectedClipId, colorRegions, pastStates,
                   futureStates, currentTime, isPlaying, view, recording,
                   masks, segmentation, player>>

\* abortController.abort(): the runs of the controller that listen reject (and
\* their catch block runs right after the caller's set); the others only have
\* their signal marked.
runsAfterAbort(controller) ==
    {[r EXCEPT !.aborted = TRUE] :
        r \in {q \in exportRuns : q.controller = controller /\ q.phase # "recording"}}
    \cup {q \in exportRuns : q.controller # controller}

abortIsHeard(controller) ==
    \E r \in exportRuns : r.controller = controller /\ r.phase = "recording"

CancelExport ==
    /\ exportRuns' = IF exportStore.abortController # 0
                     THEN runsAfterAbort(exportStore.abortController)
                     ELSE exportRuns
    /\ exportStore' =
           [state |-> "idle",
            error |-> IF exportStore.abortController # 0
                         /\ abortIsHeard(exportStore.abortController)
                      THEN FALSE ELSE exportStore.error,
            abortController |-> 0]
    /\ last' = ExportOp("cancelExport")
    /\ UNCHANGED <<sources, clips, selectedClipId, colorRegions, pastStates,
                   futureStates, currentTime, isPlaying, view, recording,
                   masks, segmentation, player>>

ResetExport ==
    /\ exportRuns' = IF exportStore.abortController # 0
                     THEN runsAfterAbort(exportStore.abortController)
                     ELSE exportRuns
    /\ exportStore' = [state |-> "idle", error |-> FALSE, abortController |-> 0]
    /\ last' = ExportOp("reset")
    /\ UNCHANGED <<sources, clips, selectedClipId, colorRegions, pastStates,
                   futureStates, currentTime, isPlaying, view, recording,
                   masks, segmentation, player>>

(***************************************************************************)
(* SpecExport: exports started, cancelled, reset, failing and completing,  *)
(* on an empty timeline and on one with clips.                             *)
(***************************************************************************)
\* No startExport call is in its synchronous part.
Settled == \A r \in exportRuns : r.phase # "started"

NextExport ==
    \/ \E file \in SourceFiles :
          Settled /\ HistoryOpen /\ Len(clips) < MaxClips /\ LoadVideo(file)
    \/ /\ Settled
       /\ exportStore.state = "exporting" \/ Cardinality(exportRuns) < MaxExportRuns
       /\ StartExport
    \/ \E run \in exportRuns : StartExportContinues(run)
    \/ \E run \in exportRuns : Settled /\ SetupSucceeds(run)
    \/ \E run \in exportRuns : Settled /\ ExportFails(run)
    \/ \E run \in exportRuns : Settled /\ ExportCompletes(run)
    \/ Settled /\ CancelExport
    \/ Settled /\ ResetExport

SpecExport == Init /\ [][NextExport]_vars

(***************************************************************************)
(* lib/export/videoExporter.ts.  `recording` follows one exportVideo call: *)
(*   stage: "none" before the call, "setup" while it awaits the video      *)
(*          elements, "running" once recordTimeline has started, "failed"  *)
(*          when it threw before that;                                     *)
(*   settled: what the returned promise settled with ("pending" until it   *)
(*          does): "blob", "cancelled", or the error thrown;               *)
(*   acquired: the resources created so far; teardowns: calls of cleanup;  *)
(*   stops: calls of recorder.stop();                                      *)
(*   looping / timer / stopEvent / fixing: an animation frame is           *)
(*          requested, the stop timeout is pending, the recorder's stop    *)
(*          event is queued, onstop awaits fixWebmDuration;                *)
(*   frame: what the last renderFrame drew.                                *)
(* recorder.stop() on a recorder that is already inactive does nothing     *)
(* (MediaStream Recording, stop(), step 2).                                *)
(***************************************************************************)
precomputeClipBoundaries(cs) ==
    [i \in 1..Len(cs) |->
        [clip |-> cs[i],
         start |-> cs[i].timelinePositionSeconds,
         end |-> cs[i].timelinePositionSeconds
                    + (cs[i].sourceOutPointSeconds - cs[i].sourceInPointSeconds)]]

\* getOutputResolution gives a zero width or height: no clip has a source with
\* known dimensions (every registered source has positive dimensions).
resolutionIsZero(cs) == \A i \in 1..Len(cs) : cs[i].sourceId \notin DOMAIN sources

\* A cursor that moves on by one clip at most.
advanceClipIndexByOne(currentIndex, boundaries, elapsed) ==
    IF currentIndex <= Len(boundaries) /\ elapsed >= boundaries[currentIndex].end
    THEN currentIndex + 1
    ELSE currentIndex

\* advanceClipIndex, on 1-based indices: Len(boundaries) + 1 is past the end.
RECURSIVE advanceClipIndex(_, _, _)
advanceClipIndex(currentIndex, boundaries, elapsed) ==
    IF currentIndex <= Len(boundaries) /\ elapsed >= boundaries[currentIndex].end
    THEN advanceClipIndex(currentIndex + 1, boundaries, elapsed)
    ELSE currentIndex

calculateSourceTime(clipData, elapsed) ==
    clipData.clip.sourceInPointSeconds + (elapsed - clipData.start)

\* renderCurrentFrame: the frame drawn for the cursor's clip.
renderCurrentFrame(index, boundaries, elapsed, videoElements) ==
    IF \/ index > Len(boundaries)
       \/ elapsed < boundaries[index].start
       \/ elapsed >= boundaries[index].end
       \/ boundaries[index].clip.sourceId \notin videoElements
    THEN [index |-> index, elapsed |-> elapsed, drawn |-> FALSE, sourceTime |-> 0]
    ELSE [index |-> index, elapsed |-> elapsed, drawn |-> TRUE,
          sourceTime |-> calculateSourceTime(boundaries[index], elapsed)]

\* The call, up to `await prepareVideoElements` or to the check that throws.
ExportVideo(mimeTypeSupported) ==
    /\ recording.stage = "none"
    /\ recording' =
           LET call == [NoRecording EXCEPT
                           !.stage = "failed",
                           !.clips = clips,
                           !.totalDuration = calculateTotalDuration(clips),
                           !.mimeTypeSupported = mimeTypeSupported]
           IN  IF Len(clips) = 0
               THEN [call EXCEPT !.settled = "No clips to export"]
               ELSE IF resolutionIsZero(clips)
               THEN [call EXCEPT !.settled = "No valid video sources found"]
               ELSE [call EXCEPT !.stage = "setup",
                                 !.acquired = {"canvas", "renderer"}]
    /\ UNCHANGED <<sources, clips, selectedClipId, colorRegions, pastStates,
                   futureStates, currentTime, isPlaying, last, view, exportStore,
                   exportRuns, masks, segmentation, player>>

\* A video element fails to load.
VideoFailsToLoad ==
    /\ recording.stage = "setup"
    /\ recording' = [recording EXCEPT
                        !.stage = "failed",
                        !.acquired = @ \cup {"videoElements"},
                        !.settled = "Failed to load video"]
    /\ UNCHANGED <<sources, clips, selectedClipId, colorRegions, pastStates,
                   futureStates, currentTime, isPlaying, last, view, exportStore,
                   exportRuns, masks, segmentation, player>>

\* The last video element has loaded: the rest of setupExportResources, and
\* recordTimeline up to its first requestAnimationFrame.
VideosLoaded ==
    /\ recording.stage = "setup"
    /\ recording' =
           IF ~recording.mimeTypeSupported
           THEN [recording EXCEPT
                    !.stage = "failed",
                    !.videoElements = {recording.clips[i].sourceId :
                                          i \in 1..Len(recording.clips)}
                                      \cap DOMAIN sources,
                    !.acquired = @ \cup {"videoElements", "canvasStream",
                                         "audioContext"},
                    !.settled = "No supported video format found"]
           ELSE [recording EXCEPT
                    !.stage = "running",
                    !.videoElements = {recording.clips[i].sourceId :
                                          i \in 1..Len(recording.clips)}
                                      \cap DOMAIN sources,
                    !.acquired = @ \cup {"videoElements", "canvasStream",
                                         "audioContext", "recorder"},
                    !.listening = ~recording.signalAborted,
                    !.recorderActive = TRUE,
                    !.looping = TRUE]
    /\ UNCHANGED <<sources, clips, selectedClipId, colorRegions, pastStates,
                   futureStates, currentTime, isPlaying, last, view, exportStore,
                   exportRuns, masks, segmentation, player>>

\* cleanup() of recordTimeline.
cleanup(r) == [r EXCEPT !.teardowns = @ + 1, !.looping = FALSE]

\* recorder.stop().
recorderStop(r) ==
    [r EXCEPT !.stops = @ + 1,
              !.recorderActive = FALSE,
              !.stopEvent = @ \/ r.recorderActive]

\* reject(reason) and resolve(blob) of the promise recordTimeline returns.
settle(r, with) == IF r.settled = "pending" THEN [r EXCEPT !.settled = with] ELSE r

handleAbort(r) ==
    settle(cleanup(recorderStop([r EXCEPT !.isAborted = TRUE])), "cancelled")

\* The abort signal fires (an AbortController aborts once).
Abort ==
    /\ recording.stage \in {"setup", "running", "failed"}
    /\ ~recording.signalAborted
    /\ recording' =
           IF recording.listening
           THEN handleAbort([recording EXCEPT !.signalAborted = TRUE])
           ELSE [recording EXCEPT !.signalAborted = TRUE]
    /\ UNCHANGED <<sources, clips, selectedClipId, colorRegions, pastStates,
                   futureStates, currentTime, isPlaying, last, view, exportStore,
                   exportRuns, masks, segmentation, player>>

\* renderFrame, called with performance.now() `step` later than the last time.
RenderFrame(step) ==
    /\ recording.stage = "running"
    /\ recording.looping
    /\ recording' =
           IF recording.isAborted
           THEN [recording EXCEPT !.looping = FALSE]
           ELSE LET elapsed == recording.elapsed + step
                    boundaries == precomputeClipBoundaries(recording.clips)
                    index == advanceClipIndex(recording.currentClipIndex,
                                              boundaries, elapsed)
                IN  [recording EXCEPT
                        !.elapsed = elapsed,
                        !.currentClipIndex = index,
                        !.frames = IF @ < 2 THEN @ + 1 ELSE @,
                        !.previous = recording.frame,
                        !.frame = renderCurrentFrame(index, boundaries, elapsed,
                                                     recording.videoElements),
                        !.looping = elapsed < recording.totalDuration,
                        !.timer = elapsed >= recording.totalDuration]
    /\ UNCHANGED <<sources, clips, selectedClipId, colorRegions, pastStates,
                   futureStates, currentTime, isPlaying, last, view, exportStore,
                   exportRuns, masks, segmentation, player>>

\* The stop timeout fires: recorder.stop().
StopTimerFires ==
    /\ recording.timer
    /\ recording' = recorderStop([recording EXCEPT !.timer = FALSE])
    /\ UNCHANGED <<sources, clips, selectedClipId, colorRegions, pastStates,
                   futureStates, currentTime, isPlaying, last, view, exportStore,
                   exportRuns, masks, segmentation, player>>

\* recorder.onstop, up to `await fixWebmDuration`.
RecorderOnStop ==
    /\ recording.stopEvent
    /\ recording' =
           IF recording.isAborted
           THEN [recording EXCEPT !.stopEvent = FALSE]
           ELSE cleanup([recording EXCEPT !.stopEvent = FALSE, !.fixing = TRUE])
    /\ UNCHANGED <<sources, clips, selectedClipId, colorRegions, pastStates,
                   futureStates, currentTime, isPlaying, last, view, exportStore,
                   exportRuns, masks, segmentation, player>>

\* fixWebmDuration resolves: resolve(fixedBlob).
DurationFixed ==
    /\ recording.fixing
    /\ recording' = settle([recording EXCEPT !.fixing = FALSE], "blob")
    /\ UNCHANGED <<sources, clips, selectedClipId, colorRegions, pastStates,
                   futureStates, currentTime, isPlaying, last, view, exportStore,
                   exportRuns, masks, segmentation, player>>

\* The recorder reports an error: recorder.onerror.  The recorder then stops
\* (and queues its stop event).
RecorderOnError ==
    /\ recording.stage = "running"
    /\ recording.recorderActive
    /\ recording' =
           settle(cleanup([recording EXCEPT !.recorderActive = FALSE,
                                            !.stopEvent = TRUE]),
                  "recorder error")
    /\ UNCHANGED <<sources, clips, selectedClipId, colorRegions, pastStates,
                   futureStates, currentTime, isPlaying, last, view, exportStore,
                   exportRuns, masks, segmentation, player>>

(***************************************************************************)
(* useSources.ts removeVideo: seek(0), clearClips(), clearSources().       *)
(***************************************************************************)
RemoveVideo ==
    /\ currentTime' = Max(0, 0)
    /\ isPlaying' = FALSE
    /\ TimelineSet(<<>>, 0, colorRegions)
    /\ sources' = <<>>
    /\ last' = Op("clearClips", 0, 0)
    /\ UNCHANGED others

(***************************************************************************)
(* SpecRecording: a timeline is put together (loaded, trimmed, removed,   *)
(* undone), then exported once; the frames come at irregular times, and    *)
(* the abort signal and a recorder error may arrive at any moment.         *)
(***************************************************************************)
FrameSteps == {100, 700}

\* The model names a source by its file, the code by a fresh id: a file is
\* loaded only while no clip, on the timeline or in the history, remembers a
\* removed source of that name.
RememberedSourceIds ==
    {clips[j].sourceId : j \in 1..Len(clips)}
    \cup UNION {{pastStates[i].clips[j].sourceId : j \in 1..Len(pastStates[i].clips)} :
                   i \in 1..Len(pastStates)}
    \cup UNION {{futureStates[i].clips[j].sourceId :
                    j \in 1..Len(futureStates[i].clips)} :
                   i \in 1..Len(futureStates)}

RecordingHistoryOpen == Len(pastStates) < MaxRecordingHistory

RecordingTrimStarts == {300}
RecordingTrimEnds == {600}

NextRecording ==
    \/ \E file \in SourceFiles :
          /\ recording.stage = "none" /\ RecordingHistoryOpen /\ Len(clips) < MaxClips
          /\ file \notin RememberedSourceIds
          /\ LoadVideo(file)
    \/ \E sourceId \in DOMAIN sources :
          /\ recording.stage = "none" /\ RecordingHistoryOpen /\ Len(clips) < MaxClips
          /\ AddClip(sourceId)
    \/ \E clipId \in ClipArgs, request \in RecordingTrimStarts :
          recording.stage = "none" /\ RecordingHistoryOpen
              /\ TrimClipStart(clipId, request) /\ Changes
    \/ \E clipId \in ClipArgs, request \in RecordingTrimEnds :
          recording.stage = "none" /\ RecordingHistoryOpen
              /\ TrimClipEnd(clipId, request) /\ Changes
    \/ recording.stage = "none" /\ RecordingHistoryOpen /\ Len(clips) > 0 /\ RemoveVideo
    \/ recording.stage = "none" /\ Undo /\ Changes
    \/ \E mimeTypeSupported \in BOOLEAN : ExportVideo(mimeTypeSupported)
    \/ VideoFailsToLoad
    \/ VideosLoaded
    \/ Abort
    \/ \E step \in FrameSteps : RenderFrame(step)
    \/ StopTimerFires
    \/ RecorderOnStop
    \/ DurationFixed
    \/ RecorderOnError

SpecRecording == Init /\ [][NextRecording]_vars

(***************************************************************************)
(* Masks: getMaskForTime (clipProcessor.ts), combineMasks and the overlay  *)
(* of the preview (SegmentOverlay), getMaskForClip of the export.          *)
(* A MaskData is [data, width, height]; null is NoMask.                    *)
(***************************************************************************)
NoMask == [data |-> <<>>, width |-> 0, height |-> 0]

\* getMaskForTime on a non-empty list: the first of the masks closest in time.
RECURSIVE closestFrom(_, _, _, _)
closestFrom(frameMasks, i, closest, timeSeconds) ==
    IF i > Len(frameMasks) THEN closest
    ELSE IF Abs(timeSeconds - frameMasks[i].frameTimeSeconds)
                < Abs(timeSeconds - closest.frameTimeSeconds)
         THEN closestFrom(frameMasks, i + 1, frameMasks[i], timeSeconds)
         ELSE closestFrom(frameMasks, i + 1, closest, timeSeconds)

getMaskForTime(frameMasks, timeSeconds) ==
    IF Len(frameMasks) = 1 THEN frameMasks[1]
    ELSE closestFrom(frameMasks, 1, frameMasks[1], timeSeconds)

\* A combination that keeps the pixels all masks have set.
combineMasksByAnd(ms) ==
    IF Len(ms) = 0 THEN NoMask
    ELSE IF Len(ms) = 1 THEN ms[1]
    ELSE [data |-> [i \in 1..Len(ms[1].data) |->
                       IF \A k \in 1..Len(ms) : ms[k].data[i] > 0 THEN 1 ELSE 0],
          width |-> ms[1].width,
          height |-> ms[1].height]

combineMasks(ms) ==
    IF Len(ms) = 0 THEN NoMask
    ELSE IF Len(ms) = 1 THEN ms[1]
    ELSE [data |-> [i \in 1..Len(ms[1].data) |->
                       IF \E k \in 1..Len(ms) :
                              i <= Len(ms[k].data) /\ ms[k].data[i] > 0
                       THEN 1 ELSE 0],
          width |-> ms[1].width,
          height |-> ms[1].height]

\* The masks the overlay collects: of each region that has masks, the one
\* nearest in time.
RECURSIVE masksOfRegions(_, _)
masksOfRegions(regions, sourceTime) ==
    IF regions = <<>> THEN <<>>
    ELSE IF Len(Head(regions)) > 0
         THEN <<getMaskForTime(Head(regions), sourceTime).mask>>
                  \o masksOfRegions(Tail(regions), sourceTime)
         ELSE masksOfRegions(Tail(regions), sourceTime)

\* SegmentOverlay renderOnEachFrame, outside preview mode: the mask given to
\* the renderer.
overlayMask(regions, sourceTime) == combineMasks(masksOfRegions(regions, sourceTime))

\* getMaskForClip of the export.
RECURSIVE getMaskForClip(_, _)
getMaskForClip(regions, sourceTime) ==
    IF regions = <<>> THEN NoMask
    ELSE IF Len(Head(regions)) > 0
         THEN getMaskForTime(Head(regions), sourceTime).mask
         ELSE getMaskForClip(Tail(regions), sourceTime)

(***************************************************************************)
(* SpecCombine: combineMasks applied to up to MaxCombined masks of          *)
(* MaskPixels pixels.  SpecComposite: a clip with up to MaxMaskRegions      *)
(* regions, each with masks at some of the MaskTimes, drawn by the export   *)
(* and by the preview at one source time.                                   *)
(***************************************************************************)
PixelValues == {0, 1, 255}

MaskDatas == {[data |-> d, width |-> MaskPixels, height |-> 1] :
                 d \in [1..MaskPixels -> PixelValues]}

MaskLists == UNION {[1..n -> MaskDatas] : n \in 0..MaxCombined}

BinaryMaskDatas == {[data |-> d, width |-> MaskPixels, height |-> 1] :
                       d \in [1..MaskPixels -> {0, 1}]}

MaskTimes == {0, 100}
SourceTimes == {0, 50, 60, 100}

\* The frameMasks a tracking job leaves: masks at increasing frame times.
FrameMaskLists ==
    {<<>>}
    \cup {<<[frameTimeSeconds |-> t, mask |-> m]>> :
             t \in MaskTimes, m \in BinaryMaskDatas}
    \cup {<<[frameTimeSeconds |-> 0, mask |-> m1],
            [frameTimeSeconds |-> 100, mask |-> m2]>> :
             m1 \in BinaryMaskDatas, m2 \in BinaryMaskDatas}

RegionLists == UNION {[1..n -> FrameMaskLists] : n \in 1..MaxMaskRegions}

InitMasks(inputs, regionLists) ==
    /\ sources = <<>>
    /\ clips = <<>>
    /\ selectedClipId = 0
    /\ colorRegions = <<>>
    /\ pastStates = <<>>
    /\ futureStates = <<>>
    /\ currentTime = 0
    /\ isPlaying = FALSE
    /\ last = [op |-> "init", clipId |-> 0, arg |-> 0, clips |-> <<>>,
               currentTime |-> 0, chain |-> "none", cut |-> NoCut]
    /\ view = [pixelsPerSecond |-> 50, step |-> "none", playheadTime |-> 0,
               positionInPixels |-> 0, pointedTime |-> 0]
    /\ exportStore = [state |-> "idle", error |-> FALSE, abortController |-> 0]
    /\ exportRuns = {}
    /\ recording = NoRecording
    /\ segmentation = NoSegmentation
    /\ player = NoPlayer
    /\ \E input \in inputs, regions \in regionLists, sourceTime \in SourceTimes :
           masks = [NoMasks EXCEPT !.input = input, !.regions = regions,
                                   !.sourceTime = sourceTime]

CombineMasks ==
    /\ masks.step = "none"
    /\ masks' = [masks EXCEPT !.step = "combined",
                              !.combined = combineMasks(masks.input)]
    /\ UNCHANGED <<sources, clips, selectedClipId, colorRegions, pastStates,
                   futureStates, currentTime, isPlaying, last, view, exportStore,
                   exportRuns, recording, segmentation, player>>

SpecCombine == InitMasks(MaskLists, {<<>>}) /\ [][CombineMasks]_vars

\* One frame of the export and one of the preview, at the same source time.
ExportFrame ==
    /\ ~masks.exportDrawn
    /\ masks' = [masks EXCEPT
                    !.exportDrawn = TRUE,
                    !.exported = getMaskForClip(masks.regions, masks.sourceTime)]
    /\ UNCHANGED <<sources, clips, selectedClipId, colorRegions, pastStates,
                   futureStates, currentTime, isPlaying, last, view, exportStore,
                   exportRuns, recording, segmentation, player>>

PreviewFrame ==
    /\ ~masks.previewDrawn
    /\ masks' = [masks EXCEPT
                    !.previewDrawn = TRUE,
                    !.previewed = overlayMask(masks.regions, masks.sourceTime)]
    /\ UNCHANGED <<sources, clips, selectedClipId, colorRegions, pastStates,
                   futureStates, currentTime, isPlaying, last, view, exportStore,
                   exportRuns, recording, segmentation, player>>

NextComposite == ExportFrame \/ PreviewFrame

SpecComposite == InitMasks({<<>>}, RegionLists) /\ [][NextComposite]_vars

(***************************************************************************)
(* playbackStore: toggle and seekRelative.  SpecSeek: seeks, absolute and  *)
(* relative, while playing and while paused, on timelines of one or two     *)
(* clips.                                                                  *)
(***************************************************************************)
Toggle ==
    /\ isPlaying' = ~isPlaying
    /\ last' = PlaybackOp("toggle", 0)
    /\ UNCHANGED <<sources, clips, selectedClipId, colorRegions, pastStates,
                   futureStates, currentTime, others>>

SeekRelative(delta) ==
    /\ currentTime' = Max(0, currentTime + delta)
    /\ isPlaying' = FALSE
    /\ last' = PlaybackOp("seekRelative", delta)
    /\ UNCHANGED <<sources, clips, selectedClipId, colorRegions, pastStates,
                   futureStates, others>>

SeekArgs == {-200, 500, 1300}
SeekDeltas == {-SEEK_AMOUNT_SHIFT_SECONDS, -SEEK_AMOUNT_SECONDS,
               SEEK_AMOUNT_SECONDS, SEEK_AMOUNT_SHIFT_SECONDS}

NextSeek ==
    \/ \E file \in SourceFiles : LoadVideo(file)
    \/ Toggle
    \/ \E time \in SeekArgs : Seek(time)
    \/ \E delta \in SeekDeltas :
          currentTime + delta <= MaxPlayhead /\ SeekRelative(delta)

SpecSeek == Init /\ [][NextSeek]_vars

(***************************************************************************)
(* stores/segmentationStore (with lib/sam/samModel's loaded models and the *)
(* module variable isPreviewProcessing).  A preview coordinate is a        *)
(* number; the mask segmented at coordinate c is named c, null is 0.       *)
(*   inflight: the coordinate of the runSegment call preview is awaiting;  *)
(*   outstanding: the runSegment calls of preview that have not settled;   *)
(*   asked: the latest preview action ("preview" of a coordinate, or       *)
(*          "clear" for clearPreview, clear and deactivation);             *)
(*   job: the confirmProcessing call that has not returned yet.            *)
(***************************************************************************)
besidesSegmentation ==
    <<sources, clips, selectedClipId, colorRegions, pastStates, futureStates,
      currentTime, isPlaying, last, view, exportStore, exportRuns, recording,
      masks, player>>

ToggleSegmentation ==
    /\ segmentation' =
           IF ~segmentation.isActive
           THEN [segmentation EXCEPT
                    !.isActive = TRUE,
                    !.isReady = @ \/ segmentation.modelsLoaded,
                    !.loading = @ \/ ~segmentation.modelsLoaded]
           ELSE [segmentation EXCEPT
                    !.isActive = FALSE, !.imageData = FALSE, !.clipId = 0,
                    !.previewMask = 0,
                    !.asked = [action |-> "clear", coordinate |-> 0]]
    /\ UNCHANGED besidesSegmentation

\* loadModels() resolves: .then(() => set({ isReady: true })).
SegmentationModelsLoad ==
    /\ segmentation.loading
    /\ segmentation' = [segmentation EXCEPT !.loading = FALSE,
                                            !.modelsLoaded = TRUE,
                                            !.isReady = TRUE]
    /\ UNCHANGED besidesSegmentation

SetFrame(clipId) ==
    /\ segmentation' = [segmentation EXCEPT !.imageData = TRUE, !.clipId = clipId]
    /\ UNCHANGED besidesSegmentation

\* A preview that sends a request whether or not one is outstanding.
previewUnguarded(s, x) ==
    IF ~s.imageData THEN s
    ELSE [s EXCEPT !.isPreviewProcessing = TRUE, !.inflight = x,
                   !.outstanding = @ + 1,
                   !.asked = [action |-> "preview", coordinate |-> x]]

\* preview(x, y) up to `await runSegment` (which throws at once when the
\* models are not loaded: the finally block then releases the flag).
preview(s, x) ==
    IF ~s.imageData THEN s
    ELSE IF s.isPreviewProcessing \/ ~s.modelsLoaded
    THEN [s EXCEPT !.asked = [action |-> "preview", coordinate |-> x]]
    ELSE [s EXCEPT !.isPreviewProcessing = TRUE, !.inflight = x,
                   !.outstanding = @ + 1,
                   !.asked = [action |-> "preview", coordinate |-> x]]

Preview(x) ==
    /\ segmentation' = preview(segmentation, x)
    /\ UNCHANGED besidesSegmentation

\* runSegment settles: with a mask, with null, or by throwing.
PreviewSettles(outcome) ==
    /\ segmentation.outstanding > 0
    /\ segmentation' =
           [segmentation EXCEPT
               !.outstanding = @ - 1,
               !.previewMask = IF outcome = "mask" THEN segmentation.inflight
                               ELSE IF outcome = "null" THEN 0 ELSE @,
               !.isPreviewProcessing = FALSE,
               !.inflight = 0]
    /\ UNCHANGED besidesSegmentation

ClearPreview ==
    /\ segmentation' = [segmentation EXCEPT
                           !.previewMask = 0,
                           !.asked = [action |-> "clear", coordinate |-> 0]]
    /\ UNCHANGED besidesSegmentation

ClearSegmentation ==
    /\ segmentation' = [segmentation EXCEPT
                           !.imageData = FALSE, !.clipId = 0, !.previewMask = 0,
                           !.asked = [action |-> "clear", coordinate |-> 0]]
    /\ UNCHANGED besidesSegmentation

RequestProcessing(clipId) ==
    /\ \E i \in 1..Len(clips) :
           /\ clips[i].id = clipId
           /\ segmentation' =
                  [segmentation EXCEPT
                      !.showModal = TRUE,
                      !.pendingProcess = [clipId |-> clipId,
                                          startTime |-> clips[i].sourceInPointSeconds,
                                          endTime |-> clips[i].sourceOutPointSeconds],
                      !.isActive = FALSE,
                      !.previewMask = 0,
                      !.asked = [action |-> "clear", coordinate |-> 0]]
    /\ UNCHANGED besidesSegmentation

CancelProcessing ==
    /\ segmentation' = [segmentation EXCEPT !.showModal = FALSE,
                                            !.pendingProcess = NoPendingProcess]
    /\ UNCHANGED besidesSegmentation

(***************************************************************************)
(* confirmProcessing and processClip.  Times are milliseconds, so          *)
(* totalFrames = ceil((end - start) * fps / 1000) and frame i is at        *)
(* start + i * (1000 / fps).                                               *)
(***************************************************************************)
totalFramesOf(startTime, endTime, fps) == ((endTime - startTime) * fps + 999) \div 1000

\* confirmProcessing up to `await Promise.all([loadObjectDetector(), loadSAM()])`.
ConfirmProcessing(fps) ==
    /\ IF segmentation.pendingProcess = NoPendingProcess \/ segmentation.isProcessing
       THEN NoSet /\ UNCHANGED segmentation
       ELSE LET pending == segmentation.pendingProcess
                total == totalFramesOf(pending.startTime, pending.endTime, fps)
            IN  /\ TimelineSet(clips, selectedClipId,
                               Append(colorRegions, NewRegion(pending.clipId, total)))
                /\ segmentation' =
                       [segmentation EXCEPT
                           !.showModal = FALSE,
                           !.pendingProcess = NoPendingProcess,
                           !.isProcessing = TRUE,
                           !.processingRegionId = generateRegionId,
                           !.job = [phase |-> "loading", regionId |-> generateRegionId,
                                    startTime |-> pending.startTime, fps |-> fps,
                                    totalFrames |-> total, i |-> 0,
                                    outcome |-> "none", skipped |-> 0]]
    /\ last' = Op("confirmProcessing", 0, fps)
    /\ UNCHANGED <<sources, currentTime, isPlaying, view, exportStore, exportRuns,
                   recording, masks, player>>

\* The detector and the SAM model are loaded: the frame loop starts.
TrackingModelsLoad ==
    /\ segmentation.job.phase = "loading"
    /\ segmentation' = [segmentation EXCEPT !.job.phase = "frames",
                                            !.modelsLoaded = TRUE]
    /\ UNCHANGED besidesSegmentation

\* The catch and finally blocks of confirmProcessing.
TrackingModelsFail ==
    /\ segmentation.job.phase = "loading"
    /\ TimelineSet(clips, selectedClipId,
                   SelectSeq(colorRegions,
                             LAMBDA r : r.id # segmentation.job.regionId))
    /\ segmentation' = [segmentation EXCEPT !.job.phase = "failed",
                                            !.isProcessing = FALSE,
                                            !.processingRegionId = 0]
    /\ last' = Op("removeColorRegion", segmentation.job.regionId, 0)
    /\ UNCHANGED <<sources, currentTime, isPlaying, view, exportStore, exportRuns,
                   recording, masks, player>>

\* How one iteration of the frame loop can go.  "extractThrows": drawImage or
\* getImageData throws inside the seeked listener of extractFrame, whose
\* promise has no reject path.
FrameOutcomes == {"mask", "noMask", "detectThrows", "segmentThrows", "extractThrows"}

\* One iteration of the loop of processClip.
frameStep(job, outcome) ==
    IF outcome = "extractThrows"
    THEN [job EXCEPT !.outcome = outcome, !.phase = "stuck"]
    ELSE [job EXCEPT !.outcome = outcome, !.i = job.i + 1,
                     !.skipped = IF outcome = "mask" THEN @ ELSE @ + 1]

TrackFrame(outcome) ==
    /\ segmentation.job.phase = "frames"
    /\ segmentation.job.i < segmentation.job.totalFrames
    /\ LET job == segmentation.job
           time == job.startTime + job.i * (1000 \div job.fps)
           frameMask == <<[frameTimeSeconds |-> time, mask |-> "m0"]>>
       IN  /\ IF outcome = "mask" /\ ~progressThrows(job.regionId, frameMask)
              THEN TimelineSet(clips, selectedClipId,
                       [k \in 1..Len(colorRegions) |->
                           IF colorRegions[k].id # job.regionId THEN colorRegions[k]
                           ELSE regionWithProgress(colorRegions[k], job.i + 1,
                                                   frameMask)])
              ELSE NoSet
           /\ segmentation' = [segmentation EXCEPT !.job = frameStep(job, outcome)]
    /\ last' = Op("updateColorRegionProgress", segmentation.job.regionId,
                  segmentation.job.i + 1)
    /\ UNCHANGED <<sources, currentTime, isPlaying, view, exportStore, exportRuns,
                   recording, masks, player>>

\* processClip returns: setColorRegionComplete, then the finally block.
TrackingCompletes ==
    /\ segmentation.job.phase = "frames"
    /\ segmentation.job.i = segmentation.job.totalFrames
    /\ TimelineSet(clips, selectedClipId,
            [k \in 1..Len(colorRegions) |->
                IF colorRegions[k].id # segmentation.job.regionId THEN colorRegions[k]
                ELSE withField(colorRegions[k], "isProcessing", FALSE)])
    /\ segmentation' = [segmentation EXCEPT !.job.phase = "done",
                                            !.isProcessing = FALSE,
                                            !.processingRegionId = 0]
    /\ last' = Op("setColorRegionComplete", segmentation.job.regionId, 0)
    /\ UNCHANGED <<sources, currentTime, isPlaying, view, exportStore, exportRuns,
                   recording, masks, player>>

(***************************************************************************)
(* SpecPreview: segmentation mode switched on and off, frames set, the     *)
(* pointer previewing at two coordinates and leaving.                      *)
(* SpecTracking: a clip is loaded and tracked at FpsArgs frames a second.  *)
(***************************************************************************)
PreviewCoordinates == {1, 2}
FrameClips == {1, 2}

NextPreview ==
    \/ ToggleSegmentation
    \/ SegmentationModelsLoad
    \/ \E clipId \in FrameClips : SetFrame(clipId)
    \/ \E x \in PreviewCoordinates : Preview(x)
    \/ \E outcome \in {"mask", "null", "throws"} : PreviewSettles(outcome)
    \/ ClearPreview
    \/ ClearSegmentation

SpecPreview == Init /\ [][NextPreview]_vars

FpsArgs == {2, 5}

Idle == segmentation.job.phase \in {"none", "done", "failed"}

NextTracking ==
    \/ \E file \in SourceFiles :
          Idle /\ Len(clips) < MaxTrackedClips /\ LoadVideo(file)
    \/ \E clipId \in ClipArgs :
          /\ Idle /\ ~segmentation.showModal
          /\ Len(colorRegions) < MaxTrackedRegions
          /\ RequestProcessing(clipId)
    \/ segmentation.showModal /\ CancelProcessing
    \/ \E fps \in FpsArgs : segmentation.showModal /\ ConfirmProcessing(fps)
    \/ TrackingModelsLoad
    \/ TrackingModelsFail
    \/ \E outcome \in FrameOutcomes : TrackFrame(outcome)
    \/ TrackingCompletes

SpecTracking == Init /\ [][NextTracking]_vars

(***************************************************************************)
(* Export geometry: videoExporter.ts getOutputResolution, createCanvas,    *)
(* renderCurrentFrame, and ColorIsolationRenderer.updateVideo.  Here a     *)
(* source is [widthInPixels, heightInPixels], the dimensions the metadata  *)
(* probe read from the video element (0: not known), which are also the    *)
(* videoWidth and videoHeight of the element the export loads for it; a    *)
(* clip is [sourceId]; and `recording` is                                  *)
(*   stage: "none", "failed" (validateResolution threw) or "running";      *)
(*   output: what getOutputResolution returned;                            *)
(*   canvas: the export canvas's width and height;                         *)
(*   renderer: the renderer's own width and height fields;                 *)
(*   videoElements: the sources a video element was loaded for;            *)
(*   drawn: the index of the clip the last frame drew (0: cleared).        *)
(***************************************************************************)
Size(width, height) == [width |-> width, height |-> height]

RECURSIVE maxResolution(_, _, _, _)
maxResolution(cs, i, maxWidth, maxHeight) ==
    IF i > Len(cs) THEN Size(maxWidth, maxHeight)
    ELSE LET known == /\ cs[i].sourceId \in DOMAIN sources
                      /\ sources[cs[i].sourceId].widthInPixels # 0
                      /\ sources[cs[i].sourceId].heightInPixels # 0
         IN  IF known
             THEN maxResolution(cs, i + 1,
                      Max(maxWidth, sources[cs[i].sourceId].widthInPixels),
                      Max(maxHeight, sources[cs[i].sourceId].heightInPixels))
             ELSE maxResolution(cs, i + 1, maxWidth, maxHeight)

getOutputResolution(cs) ==
    LET m == maxResolution(cs, 1, 0, 0)
    IN  Size((m.width \div 2) * 2, (m.height \div 2) * 2)

\* resizeIfNeeded: the renderer's fields and the canvas take the given size.
resizeIfNeeded(r, width, height) ==
    IF r.renderer = Size(width, height) THEN r
    ELSE [r EXCEPT !.renderer = Size(width, height),
                   !.canvas = Size(width, height)]

\* updateVideo(video) for the element of a source.
updateVideo(r, sourceId) ==
    resizeIfNeeded(r, sources[sourceId].widthInPixels,
                      sources[sourceId].heightInPixels)

NoGeometry ==
    [stage |-> "none", output |-> Size(0, 0), canvas |-> Size(0, 0),
     renderer |-> Size(0, 0), videoElements |-> {}, drawn |-> 0, frames |-> 0]

\* exportVideo up to recordTimeline: the resolution, its validation, the
\* canvas and the renderer (whose width and height fields start at 0).
SetupExportResources ==
    /\ recording.stage = "none"
    /\ LET output == getOutputResolution(clips)
       IN  recording' =
               IF output.width = 0 \/ output.height = 0
               THEN [recording EXCEPT !.stage = "failed", !.output = output]
               ELSE [recording EXCEPT
                        !.stage = "running",
                        !.output = output,
                        !.canvas = output,
                        !.videoElements =
                            {cs \in DOMAIN sources :
                                \E i \in 1..Len(clips) : clips[i].sourceId = cs}]
    /\ UNCHANGED <<sources, clips, selectedClipId, colorRegions, pastStates,
                   futureStates, currentTime, isPlaying, last, view,
                   exportStore, exportRuns, masks, segmentation, player>>

\* renderFrame with the cursor on clip `index` (Len(clips) + 1: past the end).
RenderGeometryFrame(index) ==
    /\ recording.stage = "running"
    /\ recording.frames < MaxGeometryFrames
    /\ LET counted == [recording EXCEPT !.frames = @ + 1]
       IN  recording' =
               IF \/ index > Len(clips)
                  \/ clips[index].sourceId \notin recording.videoElements
               THEN [counted EXCEPT !.drawn = 0]
               ELSE [updateVideo(counted, clips[index].sourceId)
                        EXCEPT !.drawn = index]
    /\ UNCHANGED <<sources, clips, selectedClipId, colorRegions, pastStates,
                   futureStates, currentTime, isPlaying, last, view,
                   exportStore, exportRuns, masks, segmentation, player>>

\* Dimensions a probe can report: none, even, odd, large.
SourceSizes == {Size(0, 0), Size(640, 360), Size(641, 481), Size(1280, 720)}
GeometrySourceIds == {"s1", "s2"}
\* Clips may also name a source that is not registered.
GeometryClipLists ==
    UNION {[1..n -> {[sourceId |-> s] : s \in GeometrySourceIds \cup {"s3"}}]
              : n \in 1..MaxGeometryClips}

InitGeometry ==
    /\ sources \in [GeometrySourceIds ->
                       {[widthInPixels |-> d.width, heightInPixels |-> d.height]
                           : d \in SourceSizes}]
    /\ clips \in GeometryClipLists
    /\ selectedClipId = Null
    /\ colorRegions = <<>>
    /\ pastStates = <<>>
    /\ futureStates = <<>>
    /\ currentTime = 0
    /\ isPlaying = FALSE
    /\ last = [op |-> "init"]
    /\ view = [step |-> "none"]
    /\ exportStore = [state |-> "idle"]
    /\ exportRuns = {}
    /\ recording = NoGeometry
    /\ masks = NoMasks
    /\ segmentation = NoSegmentation
    /\ player = NoPlayer

NextGeometry ==
    \/ SetupExportResources
    \/ \E index \in 1..(Len(clips) + 1) : RenderGeometryFrame(index)

SpecGeometry == InitGeometry /\ [][NextGeometry]_vars

(***************************************************************************)
(* hooks/useVideoPlayback.ts (and the Space key of useKeyboardShortcuts).  *)
(* `player` is the hook as last rendered:                                  *)
(*   deps: the playhead, clip list and isPlaying the last run of the video *)
(*         sync effect saw (activeClip is recomputed, and the effect run   *)
(*         again, whenever one of them changes);                           *)
(*   clip, sourceId: the clip and source that run bound (previousClipIdRef *)
(*         and previousSourceIdRef; the `clip` updateTime closes over);    *)
(*   video: the active source's video element; a video that reaches the    *)
(*         end of its media pauses itself (HTML, "ended playback");        *)
(*   frameRequested: updateTime is scheduled for the next animation frame; *)
(*   timers: pending setTimeout(play, PLAY_AFTER_SEEK_DELAY_MS) calls;     *)
(*   played: the clips the effect bound while playing, in order.           *)
(* A pending effect runs before the next event is handled.                 *)
(***************************************************************************)
NoActiveClip == [id |-> 0]

RECURSIVE findActive(_, _, _)
findActive(cs, i, timeSeconds) ==
    IF i > Len(cs) THEN 0
    ELSE IF /\ timeSeconds >= cs[i].timelinePositionSeconds
            /\ timeSeconds <= cs[i].timelinePositionSeconds + getClipDuration(cs[i])
    THEN i
    ELSE findActive(cs, i + 1, timeSeconds)

\* getActiveClipAtTime: the first clip that contains the time, with the source
\* time it maps to; none when no clip does or its source is not registered.
getActiveClipAtTime(timeSeconds, cs) ==
    LET i == findActive(cs, 1, timeSeconds)
    IN  IF i = 0 THEN NoActiveClip
        ELSE IF cs[i].sourceId \notin DOMAIN sources THEN NoActiveClip
        ELSE [id |-> cs[i].id, clip |-> cs[i],
              currentSourceTimeSeconds |->
                  cs[i].sourceInPointSeconds
                      + (timeSeconds - cs[i].timelinePositionSeconds)]

Deps == [currentTime |-> currentTime, clips |-> clips, isPlaying |-> isPlaying]
EffectPending == player.deps # Deps

PlayerOp(name, arg) ==
    [PlaybackOp(name, arg) EXCEPT !.clips = clips, !.currentTime = currentTime]

\* The video sync effect, run for the state as it is now.
SyncEffect ==
    /\ EffectPending
    /\ LET activeClip == getActiveClipAtTime(currentTime, clips)
       IN  IF activeClip = NoActiveClip
           THEN /\ isPlaying' = FALSE
                /\ player' = [player EXCEPT
                      !.deps = [Deps EXCEPT !.isPlaying = FALSE],
                      !.clip = NoActiveClip,
                      !.video = [@ EXCEPT !.paused = TRUE],
                      !.frameRequested = FALSE]
           ELSE LET clip == activeClip.clip
                    sourceTime == activeClip.currentSourceTimeSeconds
                    sourceChanged == player.sourceId # clip.sourceId
                    clipChanged == player.clip.id # clip.id
                    videoOutOfSync ==
                        Abs(player.video.currentTime - sourceTime)
                            > SYNC_THRESHOLD_SECONDS
                    synced == IF \/ sourceChanged \/ clipChanged
                                 \/ (~isPlaying /\ videoOutOfSync)
                              THEN sourceTime
                              ELSE player.video.currentTime
                    \* play() of a video that has ended starts it over.
                    started == IF isPlaying /\ synced >= sources[clip.sourceId].durationInSeconds
                               THEN 0 ELSE synced
                IN  /\ isPlaying' = isPlaying
                    /\ player' = [player EXCEPT
                          !.deps = Deps,
                          !.clip = clip,
                          !.sourceId = clip.sourceId,
                          !.video = [currentTime |-> started, paused |-> ~isPlaying],
                          !.frameRequested = isPlaying,
                          !.played = IF isPlaying /\ (@ = <<>> \/ @[Len(@)] # clip.id)
                                     THEN Append(@, clip.id) ELSE @]
    /\ last' = PlayerOp("effect", 0)
    /\ UNCHANGED <<sources, clips, selectedClipId, colorRegions, pastStates,
                   futureStates, currentTime, view, exportStore, exportRuns,
                   recording, masks, segmentation>>

\* A play button that toggles whatever the playhead is on.
TogglePlayUnconditionally ==
    /\ isPlaying' = ~isPlaying
    /\ last' = PlayerOp("togglePlay", IF isPlaying THEN 1 ELSE 0)
    /\ UNCHANGED <<sources, clips, selectedClipId, colorRegions, pastStates,
                   futureStates, currentTime, view, exportStore, exportRuns,
                   recording, masks, segmentation, player>>

\* handleTogglePlay (handleSpaceKey makes the same calls of the store).
TogglePlay ==
    /\ LET started == [player EXCEPT !.played = <<>>]
       IN  IF isPlaying
           THEN isPlaying' = FALSE /\ UNCHANGED <<currentTime, player>>
           ELSE IF getActiveClipAtTime(currentTime, clips) # NoActiveClip
           THEN isPlaying' = TRUE /\ currentTime' = currentTime /\ player' = started
           ELSE IF Len(clips) > 0
           THEN /\ currentTime' = Max(0, 0)
                /\ isPlaying' = FALSE
                /\ player' = [started EXCEPT !.timers = @ + 1]
           ELSE UNCHANGED <<currentTime, isPlaying, player>>
    /\ last' = PlayerOp("togglePlay", IF isPlaying THEN 1 ELSE 0)
    /\ UNCHANGED <<sources, clips, selectedClipId, colorRegions, pastStates,
                   futureStates, view, exportStore, exportRuns, recording,
                   masks, segmentation>>

\* The timeout of the seek-then-play fires: play().
PlayTimerFires ==
    /\ player.timers > 0
    /\ isPlaying' = TRUE
    /\ player' = [player EXCEPT !.timers = @ - 1]
    /\ last' = PlayerOp("play", IF isPlaying THEN 1 ELSE 0)
    /\ UNCHANGED <<sources, clips, selectedClipId, colorRegions, pastStates,
                   futureStates, currentTime, view, exportStore, exportRuns,
                   recording, masks, segmentation>>

\* updateTime on an animation frame, the decoder having moved on by `step`.
UpdateTime(step) ==
    /\ player.frameRequested
    /\ LET mediaEnd == sources[player.sourceId].durationInSeconds
           sourceTime == Min(player.video.currentTime + step, mediaEnd)
           clip == player.clip
           duration == calculateTotalDuration(clips)
           timelinePosition ==
               clip.timelinePositionSeconds + (sourceTime - clip.sourceInPointSeconds)
           clipEnded == sourceTime >= clip.sourceOutPointSeconds - END_THRESHOLD_SECONDS
           clipEndOnTimeline == clip.timelinePositionSeconds + getClipDuration(clip)
           isLastClip == clipEndOnTimeline >= duration - END_THRESHOLD_SECONDS
       IN  IF sourceTime >= mediaEnd
           THEN /\ player' = [player EXCEPT
                       !.video = [currentTime |-> mediaEnd, paused |-> TRUE],
                       !.frameRequested = FALSE]
                /\ UNCHANGED <<currentTime, isPlaying>>
           ELSE /\ player' = [player EXCEPT
                       !.video = [currentTime |-> sourceTime, paused |-> FALSE],
                       !.frameRequested = ~clipEnded]
                /\ isPlaying' = IF clipEnded /\ isLastClip THEN FALSE ELSE isPlaying
                /\ currentTime' =
                       IF clipEnded
                       THEN IF isLastClip THEN Max(0, duration)
                            ELSE Max(0, clipEndOnTimeline + CLIP_TRANSITION_OFFSET_SECONDS)
                       ELSE Max(0, timelinePosition)
    /\ last' = PlayerOp("updateTime", step)
    /\ UNCHANGED <<sources, clips, selectedClipId, colorRegions, pastStates,
                   futureStates, view, exportStore, exportRuns, recording,
                   masks, segmentation>>

\* The decoder's progress between two animation frames.
DecoderSteps == {10, 40}
PlaybackSeekTimes == {500, 505, 970, 1200}
PlaybackSplitTimes == {500, 505, 970}

\* An event is handled once the pending effect has run.
Handled == ~EffectPending /\ Len(pastStates) < MaxPlaybackHistory

NextPlayback ==
    \/ SyncEffect
    \/ \E file \in SourceFiles : Handled /\ LoadVideo(file)
    \/ \E time \in PlaybackSeekTimes :
          ~EffectPending /\ Seek(time) /\ currentTime' # currentTime
    \/ \E i \in 1..Len(clips) :
          /\ Handled /\ currentTime \in PlaybackSplitTimes
          /\ SplitClip(clips[i].id, currentTime) /\ Changes
    \/ Handled /\ ClearClips /\ Changes
    \/ ~EffectPending /\ player.timers < MaxPlayTimers /\ TogglePlay
    \/ ~EffectPending /\ PlayTimerFires
    \/ \E step \in DecoderSteps : ~EffectPending /\ UpdateTime(step)

SpecPlayback == Init /\ [][NextPlayback]_vars

(***************************************************************************)
(* SpecSelection: the operations of Spec together with selectClip of a     *)
(* clip that is on the timeline.                                           *)
(***************************************************************************)
SelectionHistoryOpen == Len(pastStates) < MaxSelectionHistory

NextSelection ==
    \/ \E file \in SourceFiles : SelectionHistoryOpen /\ LoadVideo(file)
    \/ \E sourceId \in DOMAIN sources :
          SelectionHistoryOpen /\ Len(clips) < MaxClips /\ AddClip(sourceId)
    \/ \E clipId \in ClipArgs : SelectClip(clipId) /\ Changes
    \/ \E clipId \in ClipArgs : SelectionHistoryOpen /\ RemoveClip(clipId)
    \/ SelectionHistoryOpen /\ ClearClips /\ Changes
    \/ \E activeId \in ClipArgs, overId \in ClipArgs :
          SelectionHistoryOpen /\ ReorderClips(activeId, overId) /\ Changes
    \/ \E clipId \in ClipArgs, request \in RecordingTrimStarts :
          SelectionHistoryOpen /\ TrimClipStart(clipId, request) /\ Changes
    \/ \E clipId \in ClipArgs, request \in RecordingTrimEnds :
          SelectionHistoryOpen /\ TrimClipEnd(clipId, request) /\ Changes
    \/ \E clipId \in ClipArgs, time \in RecordingTrimStarts :
          SelectionHistoryOpen /\ SplitClip(clipId, time) /\ Changes
    \/ Undo /\ Changes
    \/ Redo /\ Changes

SpecSelection == Init /\ [][NextSelection]_vars

(***************************************************************************)
(* SpecTrackingHistory: SpecTracking with undo and redo, which the user    *)
(* can call while a clip is tracked and afterwards.                        *)
(***************************************************************************)
TrackingHistoryOpen == Len(pastStates) < MaxTrackingHistory

NextTrackingHistory ==
    \/ \E file \in SourceFiles :
          /\ Idle /\ Len(clips) < MaxTrackedClips /\ TrackingHistoryOpen
          /\ LoadVideo(file)
    \/ \E clipId \in ClipArgs :
          /\ Idle /\ ~segmentation.showModal
          /\ Len(colorRegions) < MaxTrackedRegions
          /\ RequestProcessing(clipId)
    \/ segmentation.showModal /\ CancelProcessing
    \/ \E fps \in FpsArgs :
          segmentation.showModal /\ TrackingHistoryOpen /\ ConfirmProcessing(fps)
    \/ TrackingModelsLoad
    \/ TrackingModelsFail
    \/ \E outcome \in FrameOutcomes : TrackFrame(outcome)
    \/ TrackingCompletes
    \/ Undo /\ Changes
    \/ Redo /\ Changes

SpecTrackingHistory == Init /\ [][NextTrackingHistory]_vars

(***************************************************************************)
(* Properties.                                                             *)
(***************************************************************************)
HasClip(cs, id) == \E i \in 1..Len(cs) : cs[i].id = id
ClipOf(cs, id) == cs[CHOOSE i \in 1..Len(cs) : cs[i].id = id]
LengthOf(clip) == clip.sourceOutPointSeconds - clip.sourceInPointSeconds
TrimOps == {"trimClipStart", "trimClipEnd"}
\* The last operation was a trim of a clip that was on the timeline.
Trimmed == last.op \in TrimOps /\ HasClip(last.clips, last.clipId)
                /\ HasClip(clips, last.clipId)
ClipBeforeTrim == ClipOf(last.clips, last.clipId)
TrimmedClip == ClipOf(clips, last.clipId)

\* C1: the clip list is contiguous: the first clip is at 0 and every other
\* clip starts where the clip before it ends (so clip i is at the sum of the
\* lengths of clips 0..i-1).
C1_Contiguous ==
    \A i \in 1..Len(clips) :
        clips[i].timelinePositionSeconds =
            IF i = 1 THEN 0
            ELSE clips[i - 1].timelinePositionSeconds + LengthOf(clips[i - 1])

\* C1 witness: two clips of different lengths have just swapped places.
C1_Witness ==
    /\ last.op = "reorderClips"
    /\ Len(clips) >= 2
    /\ LengthOf(clips[1]) # LengthOf(clips[2])
    /\ clips[2].timelinePositionSeconds = LengthOf(clips[1])

\* C2: every clip has its in point before its out point and is at least
\* 0.1 s long.
C2_MinClipLength ==
    \A i \in 1..Len(clips) :
        /\ clips[i].sourceInPointSeconds < clips[i].sourceOutPointSeconds
        /\ LengthOf(clips[i]) >= 100

\* C3: a trim of a clip that was at least 0.1 s long leaves it at least 0.1 s
\* long, with its in point >= 0 and its out point <= the source's duration.
C3_TrimClamps ==
    (Trimmed /\ LengthOf(ClipBeforeTrim) >= 100) =>
        /\ LengthOf(TrimmedClip) >= 100
        /\ TrimmedClip.sourceInPointSeconds >= 0
        /\ TrimmedClip.sourceOutPointSeconds
               <= sources[TrimmedClip.sourceId].durationInSeconds

\* C3 witness: a start trim requested past the clip's out point was clamped to
\* 0.1 s before it.
C3_Witness ==
    /\ Trimmed
    /\ last.op = "trimClipStart"
    /\ LengthOf(ClipBeforeTrim) > 100
    /\ last.arg > ClipBeforeTrim.sourceOutPointSeconds
    /\ TrimmedClip.sourceInPointSeconds = ClipBeforeTrim.sourceOutPointSeconds - 100

\* C4: a trim restores no more than the trim memory holds (the in point is not
\* lowered below old in - trimmed.start, the out point not raised above
\* old out + trimmed.end), and after a split no trim brings the left half's out
\* point above the split point or the right half's in point below it.
C4_TrimOnlyRestores ==
    /\ (Trimmed /\ last.op = "trimClipStart") =>
           TrimmedClip.sourceInPointSeconds >=
               ClipBeforeTrim.sourceInPointSeconds - ClipBeforeTrim.trimmed.startSeconds
    /\ (Trimmed /\ last.op = "trimClipEnd") =>
           TrimmedClip.sourceOutPointSeconds <=
               ClipBeforeTrim.sourceOutPointSeconds + ClipBeforeTrim.trimmed.endSeconds
    /\ \A i \in 1..Len(clips) :
           /\ (last.cut.left # 0 /\ clips[i].id = last.cut.left) =>
                  clips[i].sourceOutPointSeconds <= last.cut.point
           /\ (last.cut.right # 0 /\ clips[i].id = last.cut.right) =>
                  clips[i].sourceInPointSeconds >= last.cut.point

\* C4 witness: the left half of a split, shortened by a trim, was asked to
\* extend past the split point and got back to the split point exactly.
C4_Witness ==
    /\ Trimmed
    /\ last.op = "trimClipEnd"
    /\ last.clipId = last.cut.left
    /\ last.arg > last.cut.point
    /\ ClipBeforeTrim.sourceOutPointSeconds < last.cut.point
    /\ TrimmedClip.sourceOutPointSeconds = last.cut.point

\* The playhead was inside the trimmed clip, and the source time it viewed.
PlayheadWasInTrimmed ==
    /\ Trimmed
    /\ last.currentTime >= ClipBeforeTrim.timelinePositionSeconds
    /\ last.currentTime <= ClipBeforeTrim.timelinePositionSeconds + LengthOf(ClipBeforeTrim)
ViewedSourceTime ==
    ClipBeforeTrim.sourceInPointSeconds
        + (last.currentTime - ClipBeforeTrim.timelinePositionSeconds)
StillInBounds ==
    /\ TrimmedClip.sourceInPointSeconds <= ViewedSourceTime
    /\ ViewedSourceTime <= TrimmedClip.sourceOutPointSeconds
ReanchoredTime ==
    TrimmedClip.timelinePositionSeconds
        + (ViewedSourceTime - TrimmedClip.sourceInPointSeconds)
ClampedToEdge ==
    IF ViewedSourceTime < TrimmedClip.sourceInPointSeconds
    THEN currentTime = TrimmedClip.timelinePositionSeconds
    ELSE currentTime = TrimmedClip.timelinePositionSeconds + LengthOf(TrimmedClip)

\* C5 as claimed: after a trim of the clip that held the playhead, the playhead
\* views the same source time s if s is still within the clip, and else sits on
\* the clip's new start (s < new in) or new end (s > new out).
C5_ReanchorExact ==
    PlayheadWasInTrimmed =>
        IF StillInBounds THEN currentTime = ReanchoredTime ELSE ClampedToEdge

\* C5 as amended: the same, except that the playhead is left where it was when
\* the re-anchored time is within 0.001 s of it.
C5_ReanchorBeyondEpsilon ==
    PlayheadWasInTrimmed =>
        IF StillInBounds
        THEN IF Abs(ReanchoredTime - last.currentTime) > 1
             THEN currentTime = ReanchoredTime
             ELSE currentTime = last.currentTime
        ELSE ClampedToEdge

\* C5 witness: a start trim moved the in point, the viewed source time stayed
\* in bounds and the playhead was carried to its new timeline time.
C5_Witness ==
    /\ PlayheadWasInTrimmed
    /\ last.op = "trimClipStart"
    /\ StillInBounds
    /\ ReanchoredTime # last.currentTime
    /\ currentTime = ReanchoredTime

\* C6: after a trim of clip X, a playhead that was strictly inside another clip
\* Y is still inside Y and views the same source time of Y.
C6_TrimElsewhereKeepsView ==
    last.op \in TrimOps =>
        \A i \in 1..Len(last.clips) :
            LET Y == last.clips[i]
            IN  (/\ Y.id # last.clipId
                 /\ HasClip(last.clips, last.clipId)
                 /\ HasClip(clips, Y.id)
                 /\ last.currentTime > Y.timelinePositionSeconds
                 /\ last.currentTime < Y.timelinePositionSeconds + LengthOf(Y))
                =>
                LET Z == ClipOf(clips, Y.id)
                IN  /\ currentTime >= Z.timelinePositionSeconds
                    /\ currentTime <= Z.timelinePositionSeconds + LengthOf(Z)
                    /\ Z.sourceInPointSeconds
                           + (currentTime - Z.timelinePositionSeconds)
                       = Y.sourceInPointSeconds
                           + (last.currentTime - Y.timelinePositionSeconds)

\* C7: an undo that directly follows a mutation that changed the clip list
\* restores the clip list the mutation was applied to, and the redo that
\* directly follows that undo restores the clip list the mutation produced.
C7_UndoRedoRestore ==
    [][/\ last'.chain = "undone" => clips' = last.clips
       /\ last'.chain = "redone" => clips' = last.clips]_vars

\* C7 witness: a trim was undone and redone.
C7_Witness ==
    /\ last.chain = "redone"
    /\ clips # last.clips
    /\ \E i \in 1..Len(clips) : clips[i].trimmed.endSeconds > 0

\* C8: the undo history never holds more than 50 past states, and a snapshot
\* recorded when it holds 50 evicts the oldest.
C8_PastBounded ==
    [][/\ Len(pastStates') <= 50
       /\ (Len(pastStates) = 50 /\ last'.op \in MutationOps /\ clips' # clips) =>
              pastStates' = Append(Tail(pastStates),
                                   partialize(clips, colorRegions))]_vars

\* C8 witness: 50 past states are held and the first state of the session is
\* no longer among them.
C8_Witness ==
    /\ Len(pastStates) = 50
    /\ pastStates[1].clips # <<>>

\* C9: a mutation that changes the tracked state empties the redo list, and a
\* redo with an empty redo list changes nothing.
C9_LinearHistory ==
    [][/\ (last'.op \in MutationOps /\ clips' # clips) => futureStates' = <<>>
       /\ (last'.op = "redo" /\ futureStates = <<>>) =>
              UNCHANGED <<clips, selectedClipId, colorRegions, pastStates,
                          futureStates>>]_vars

\* C9 witness: after an undo, a mutation dropped the redo list and the redo
\* that followed applied nothing.
C9_Witness ==
    /\ last.chain = "redoAfterBranch"
    /\ clips = last.clips
    /\ futureStates = <<>>

\* C10: updateColorRegionProgress adds nothing to the undo history and leaves
\* the redo list as it is.
C10_ProgressNotRecorded ==
    [][last'.op = "updateColorRegionProgress" =>
           UNCHANGED <<pastStates, futureStates>>]_vars

\* C10 witness: a region has taken a frame mask while an undo and a redo
\* history exist.
C10_Witness ==
    /\ last.op = "updateColorRegionProgress"
    /\ pastStates # <<>>
    /\ \E i \in 1..Len(colorRegions) :
           /\ "frameMasks" \in DOMAIN colorRegions[i]
           /\ Len(colorRegions[i].frameMasks) > 0

(***************************************************************************)
(* Properties of single calls, stated over a step: the unprimed variables  *)
(* are the store the call was made on, last' is the call, the primed       *)
(* variables are the store it left.                                        *)
(***************************************************************************)
RECURSIVE SumOfLengths(_)
SumOfLengths(cs) ==
    IF cs = <<>> THEN 0 ELSE LengthOf(Head(cs)) + SumOfLengths(Tail(cs))

\* The index of the first clip of cs with the id; 0 if there is none.
IndexOf(cs, id) ==
    IF HasClip(cs, id)
    THEN CHOOSE i \in 1..Len(cs) :
             cs[i].id = id /\ \A j \in 1..(i - 1) : cs[j].id # id
    ELSE 0

\* Whether time t is strictly inside the timeline span of clip c.
StrictlyInside(c, t) ==
    /\ t > c.timelinePositionSeconds
    /\ t < c.timelinePositionSeconds + LengthOf(c)

\* The call made by the step is a splitClip of a clip on the timeline, at a
\* time strictly inside it.
SplitsInside ==
    /\ last'.op = "splitClip"
    /\ HasClip(clips, last'.clipId)
    /\ StrictlyInside(ClipOf(clips, last'.clipId), last'.arg)

\* C11: splitClip at a time strictly inside a clip puts two adjacent clips in
\* its place: the left keeps id, in point and trimmed.start, ends at
\* in + (t - pos) and has trimmed.end 0; the right has an id no clip had, starts
\* at in + (t - pos), keeps the out point and trimmed.end, has trimmed.start 0
\* and is at timeline time t.  The other clips and the total duration are
\* unchanged.
C11_SplitInside ==
    [][SplitsInside =>
        LET k == IndexOf(clips, last'.clipId)
            c == clips[k]
            t == last'.arg
            cut == c.sourceInPointSeconds + (t - c.timelinePositionSeconds)
        IN  /\ Len(clips') = Len(clips) + 1
            /\ clips'[k] =
                 [c EXCEPT !.sourceOutPointSeconds = cut,
                           !.trimmed = [startSeconds |-> c.trimmed.startSeconds,
                                        endSeconds |-> 0]]
            /\ clips'[k + 1].id \notin ClipIdsOf(clips)
            /\ clips'[k + 1] =
                 [c EXCEPT !.id = clips'[k + 1].id,
                           !.sourceInPointSeconds = cut,
                           !.timelinePositionSeconds = t,
                           !.trimmed = [startSeconds |-> 0,
                                        endSeconds |-> c.trimmed.endSeconds]]
            /\ \A j \in 1..(k - 1) : clips'[j] = clips[j]
            /\ \A j \in (k + 1)..Len(clips) : clips'[j + 1] = clips[j]
            /\ SumOfLengths(clips') = SumOfLengths(clips)]_vars

\* C11 witness: a clip whose end had been trimmed was split in two, and another
\* clip follows the two halves.
C11_Witness ==
    /\ last.op = "splitClip"
    /\ HasClip(last.clips, last.clipId)
    /\ StrictlyInside(ClipOf(last.clips, last.clipId), last.arg)
    /\ Len(clips) = Len(last.clips) + 1
    /\ \E i \in 1..Len(clips) :
           /\ clips[i].id = last.clipId
           /\ i + 1 < Len(clips)
           /\ clips[i + 1].sourceInPointSeconds = clips[i].sourceOutPointSeconds

\* C11 second case reached: the split clip carried trim memory on both edges.
SplitOfTrimmedClip ==
    /\ last.op = "splitClip"
    /\ Len(clips) = Len(last.clips) + 1
    /\ HasClip(last.clips, last.clipId)
    /\ ClipOf(last.clips, last.clipId).trimmed.endSeconds > 0

\* C12: splitClip at a clip's timeline start, at its timeline end or outside
\* its span leaves the clip list as it is and records no undo entry.
C12_SplitAtEdgeIsNoOp ==
    [][(/\ last'.op = "splitClip"
        /\ HasClip(clips, last'.clipId)
        /\ ~StrictlyInside(ClipOf(clips, last'.clipId), last'.arg))
       => /\ clips' = clips
          /\ pastStates' = pastStates]_vars

\* C12 witness: a split was asked for exactly where a clip ends and the next
\* begins, on a timeline with an undo history, and nothing moved.
C12_Witness ==
    /\ last.op = "splitClip"
    /\ HasClip(last.clips, last.clipId)
    /\ LET c == ClipOf(last.clips, last.clipId)
       IN  /\ last.arg = c.timelinePositionSeconds + LengthOf(c)
           /\ last.arg < SumOfLengths(last.clips)
    /\ clips = last.clips
    /\ pastStates # <<>>

\* The call made by the step is a trim of a clip on the timeline.
Trims(name) == last'.op = name /\ HasClip(clips, last'.clipId)

\* C13: a trim moves what it cuts into the trim memory and shifts what
\* follows.  With d the amount by which trimClipEnd lowers the out point
\* (negative when it restores): trimmed.endSeconds grows by d, the total
\* duration shrinks by d, every later clip moves d earlier, and nothing else
\* changes, so that out + trimmed.end stays the same.  Likewise for
\* trimClipStart with d the amount by which the in point is raised, and
\* in - trimmed.start.
C13_TrimMovesIntoMemory ==
    [][\A name \in TrimOps : Trims(name) =>
        LET k == IndexOf(clips, last'.clipId)
            c == clips[k]
            n == clips'[k]
            d == IF name = "trimClipEnd"
                 THEN c.sourceOutPointSeconds - n.sourceOutPointSeconds
                 ELSE n.sourceInPointSeconds - c.sourceInPointSeconds
        IN  /\ Len(clips') = Len(clips)
            /\ n.id = c.id /\ n.sourceId = c.sourceId
            /\ n.timelinePositionSeconds = c.timelinePositionSeconds
            /\ IF name = "trimClipEnd"
               THEN /\ n.trimmed.endSeconds = c.trimmed.endSeconds + d
                    /\ n.trimmed.startSeconds = c.trimmed.startSeconds
                    /\ n.sourceInPointSeconds = c.sourceInPointSeconds
                    /\ n.sourceOutPointSeconds + n.trimmed.endSeconds
                         = c.sourceOutPointSeconds + c.trimmed.endSeconds
               ELSE /\ n.trimmed.startSeconds = c.trimmed.startSeconds + d
                    /\ n.trimmed.endSeconds = c.trimmed.endSeconds
                    /\ n.sourceOutPointSeconds = c.sourceOutPointSeconds
                    /\ n.sourceInPointSeconds - n.trimmed.startSeconds
                         = c.sourceInPointSeconds - c.trimmed.startSeconds
            /\ SumOfLengths(clips') = SumOfLengths(clips) - d
            /\ \A j \in 1..(k - 1) : clips'[j] = clips[j]
            /\ \A j \in (k + 1)..Len(clips) :
                   clips'[j] = [clips[j] EXCEPT !.timelinePositionSeconds =
                                    clips[j].timelinePositionSeconds - d]]_vars

\* C13 witness: an end trim gave back material it had cut before, and the
\* clip after it moved later by as much.
C13_Witness ==
    /\ Trimmed
    /\ last.op = "trimClipEnd"
    /\ ClipBeforeTrim.trimmed.endSeconds > 0
    /\ TrimmedClip.sourceOutPointSeconds > ClipBeforeTrim.sourceOutPointSeconds
    /\ TrimmedClip.trimmed.endSeconds < ClipBeforeTrim.trimmed.endSeconds
    /\ \E i \in 2..Len(clips) :
           /\ clips[i - 1].id = last.clipId
           /\ clips[i].timelinePositionSeconds
                  > last.clips[i].timelinePositionSeconds

\* C14: addClip of a registered source of duration D appends one clip with in
\* point 0, out point D, trimmed (0, 0), placed at the previous total duration;
\* the total duration grows by D and no clip that was there changes.
C14_AddClipAppends ==
    [][(last'.op = "addClip" /\ last'.arg \in DOMAIN sources') =>
        LET D == sources'[last'.arg].durationInSeconds
        IN  /\ clips' = Append(clips,
                   [id |-> clips'[Len(clips')].id,
                    sourceId |-> last'.arg,
                    sourceInPointSeconds |-> 0,
                    sourceOutPointSeconds |-> D,
                    timelinePositionSeconds |-> SumOfLengths(clips),
                    trimmed |-> [startSeconds |-> 0, endSeconds |-> 0]])
            /\ SumOfLengths(clips') = SumOfLengths(clips) + D]_vars

\* C14 witness: a 0.4 s source was added after a 1 s one: the second clip is at
\* 1 s and the timeline is 1.4 s long.
C14_Witness ==
    /\ last.op = "addClip"
    /\ last.arg = "s2"
    /\ Len(last.clips) = 1
    /\ Len(clips) = 2
    /\ clips[2].sourceId = "s2"
    /\ clips[2].timelinePositionSeconds = 1000
    /\ SumOfLengths(clips) = 1400

\* A clip list without the clip of the given id and without the positions.
Others(cs, id) ==
    LET rest == SelectSeq(cs, LAMBDA c : c.id # id)
    IN  [i \in 1..Len(rest) |-> [rest[i] EXCEPT !.timelinePositionSeconds = 0]]

\* C15: reorderClips with two distinct ids that are both on the timeline puts
\* the active clip at the index the over clip had, keeps the order of the other
\* clips and changes nothing of any clip but its timeline position; the total
\* duration is unchanged.
C15_ReorderMoves ==
    [][(/\ last'.op = "reorderClips"
        /\ last'.clipId # last'.arg
        /\ HasClip(clips, last'.clipId)
        /\ HasClip(clips, last'.arg))
       => LET a == IndexOf(clips, last'.clipId)
              o == IndexOf(clips, last'.arg)
          IN  /\ Len(clips') = Len(clips)
              /\ [clips'[o] EXCEPT !.timelinePositionSeconds = 0]
                   = [clips[a] EXCEPT !.timelinePositionSeconds = 0]
              /\ Others(clips', last'.clipId) = Others(clips, last'.clipId)
              /\ SumOfLengths(clips') = SumOfLengths(clips)]_vars

\* C15 witness: the first of three clips was dropped on the third: it is now
\* the third, and the two others have moved up in their order.
C15_Witness ==
    /\ last.op = "reorderClips"
    /\ Len(last.clips) = 3
    /\ last.clips[1].id = last.clipId
    /\ last.clips[3].id = last.arg
    /\ clips[3].id = last.clipId
    /\ clips[1].id = last.clips[2].id
    /\ clips[2].id = last.clips[3].id
    /\ LengthOf(clips[1]) # LengthOf(clips[3])

\* The call made by the step is one of the invalid requests: addClip of an
\* unregistered source, reorderClips with equal ids or an id no clip has,
\* removeClip, splitClip or a trim with an id no clip has.
InvalidCall ==
    \/ last'.op = "addClip" /\ last'.arg \notin DOMAIN sources'
    \/ /\ last'.op = "reorderClips"
       /\ \/ last'.clipId = last'.arg
          \/ ~HasClip(clips, last'.clipId)
          \/ ~HasClip(clips, last'.arg)
    \/ /\ last'.op \in {"removeClip", "splitClip", "trimClipStart", "trimClipEnd"}
       /\ ~HasClip(clips, last'.clipId)

\* C16: an invalid request leaves the clip list, the selection and the playhead
\* unchanged.
C16_InvalidCallsChangeNothing ==
    [][InvalidCall => UNCHANGED <<clips, selectedClipId, currentTime>>]_vars

\* C17: removeClip of a clip on the timeline removes that clip and no other,
\* and the selection becomes null if that clip was the selected one and is kept
\* otherwise; clearClips empties the clip list and sets the selection to null.
C17_RemoveAndSelection ==
    [][/\ (last'.op = "removeClip" /\ HasClip(clips, last'.clipId)) =>
            /\ Len(clips') = Len(clips) - 1
            /\ ~HasClip(clips', last'.clipId)
            /\ Others(clips', last'.clipId) = Others(clips, last'.clipId)
            /\ selectedClipId' = IF selectedClipId = last'.clipId
                                 THEN 0 ELSE selectedClipId
       /\ last'.op = "clearClips" =>
            /\ clips' = <<>>
            /\ selectedClipId' = 0]_vars

\* C17 witness: with one clip selected, another clip was removed and the
\* selection stayed.
C17_Witness ==
    /\ last.op = "removeClip"
    /\ HasClip(last.clips, last.clipId)
    /\ Len(clips) = Len(last.clips) - 1
    /\ selectedClipId # 0
    /\ selectedClipId # last.clipId
    /\ HasClip(clips, selectedClipId)

\* C17 other cases reached: the selected clip was removed; a timeline with a
\* selection was cleared.
SelectedClipRemoved ==
    /\ last.op = "removeClip"
    /\ HasClip(last.clips, last.clipId)
    /\ Len(last.clips) >= 2
    /\ selectedClipId = 0
    /\ pastStates # <<>>
    /\ pastStates[Len(pastStates)].clips = last.clips

RoundTripAtEnd ==
    /\ view.step = "pointed"
    /\ Len(clips) = 2
    /\ clips[2].trimmed.endSeconds > 0
    /\ view.playheadTime = SumOfLengths(clips)

\* C19: every color region refers to a clip that is on the timeline: no region
\* whose clipId no clip carries remains after a clip is removed.
C19_NoOrphanRegion ==
    \A i \in 1..Len(colorRegions) : HasClip(clips, colorRegions[i].clipId)

\* C20: the export state follows idle -> exporting -> complete | error | idle:
\* 'complete' and 'error' are entered only from 'exporting', 'exporting' is
\* left only to complete, error or idle, and startExport called while the state
\* is 'exporting' changes nothing and starts no second run.
C20_ExportStateMachine ==
    [][/\ (exportStore'.state \in {"complete", "error"}
              /\ exportStore'.state # exportStore.state)
          => exportStore.state = "exporting"
       /\ (exportStore.state = "exporting" /\ exportStore'.state # "exporting")
          => exportStore'.state \in {"complete", "error", "idle"}
       /\ (exportStore.state = "exporting" /\ last'.op = "startExport"
              /\ last' # last)
          => UNCHANGED <<exportStore, exportRuns>>]_vars

(***************************************************************************)
(* Properties of one exportVideo call (SpecRecording).                     *)
(***************************************************************************)
\* The abort signal fires in this step, before the promise has settled.
AbortedWhilePending ==
    /\ recording.stage \in {"setup", "running"}
    /\ recording.settled = "pending"
    /\ ~recording.signalAborted
    /\ recording'.signalAborted

\* C21: an abort signal that fires after exportVideo was called and before it
\* has settled stops the encoder, tears down the acquired resources and rejects
\* the promise with the cancellation error; a run whose signal fired before it
\* settled never resolves with a blob.
C21_AbortCancels ==
    [][/\ AbortedWhilePending
          => /\ recording'.settled = "cancelled"
             /\ ~recording'.recorderActive
             /\ recording'.teardowns >= 1
       /\ (recording.signalAborted /\ recording.settled = "pending")
          => recording'.settled # "blob"]_vars

PreconditionFailures ==
    {"No clips to export", "No valid video sources found",
     "No supported video format found"}

\* C22: when the export fails on a precondition (no clips, zero resolution, no
\* supported output format), no resource has been created.
C22_PreconditionsFailFast ==
    recording.settled \in PreconditionFailures => recording.acquired = {}

\* The no-clips and zero-resolution checks do fail before anything is created.
FirstChecksFailFast ==
    recording.settled \in {"No clips to export", "No valid video sources found"}
        => recording.acquired = {}

\* C23: the teardown of a run executes once at most, and an abort signal that
\* arrives after the promise has settled with a blob or a recorder error
\* neither stops the recorder again nor tears down again.
C23_TeardownOnce ==
    [][/\ recording'.teardowns <= 1
       /\ (/\ recording.settled \in {"blob", "recorder error"}
           /\ ~recording.signalAborted
           /\ recording'.signalAborted)
          => /\ recording'.teardowns = recording.teardowns
             /\ recording'.stops = recording.stops]_vars

\* The clip of the export whose span holds the elapsed time.
Containing(elapsed) ==
    {i \in 1..Len(recording.clips) :
        /\ precomputeClipBoundaries(recording.clips)[i].start <= elapsed
        /\ elapsed < precomputeClipBoundaries(recording.clips)[i].end}

\* The last frame, if it came before the end, is of the clip whose span holds
\* its elapsed time, at source time in point + (elapsed - start).
FrameFollowsTime ==
    (/\ recording.stage = "running"
     /\ recording.frames > 0
     /\ recording.frame.elapsed < recording.totalDuration)
    => /\ Containing(recording.frame.elapsed) = {recording.frame.index}
       /\ recording.frame.index = recording.currentClipIndex
       /\ LET clip == recording.clips[recording.frame.index]
          IN  clip.sourceId \in DOMAIN sources
              => /\ recording.frame.drawn
                 /\ recording.frame.sourceTime =
                        clip.sourceInPointSeconds
                            + (recording.frame.elapsed - clip.timelinePositionSeconds)

C25_ExportMaskIsPreviewMask ==
    (masks.exportDrawn /\ masks.previewDrawn) => masks.exported = masks.previewed

\* With a single region that has masks the two do agree.
SingleRegionAgrees ==
    (/\ masks.exportDrawn /\ masks.previewDrawn
     /\ Len(masksOfRegions(masks.regions, masks.sourceTime)) <= 1)
    => masks.exported = masks.previewed

\* C26: combineMasks of two or more masks of equal dimensions has those
\* dimensions and pixel i is 1 if some input has a non-zero pixel i and 0
\* otherwise; of one mask it is that mask; of none it is null.
C26_CombineIsOr ==
    masks.step = "combined" =>
        /\ Len(masks.input) = 0 => masks.combined = NoMask
        /\ Len(masks.input) = 1 => masks.combined = masks.input[1]
        /\ Len(masks.input) >= 2 =>
               /\ masks.combined.width = masks.input[1].width
               /\ masks.combined.height = masks.input[1].height
               /\ Len(masks.combined.data) = Len(masks.input[1].data)
               /\ \A i \in 1..Len(masks.combined.data) :
                      masks.combined.data[i] =
                          IF \E k \in 1..Len(masks.input) : masks.input[k].data[i] # 0
                          THEN 1 ELSE 0

\* Three masks combined, where a pixel is set by one of them only, with a value
\* other than 1, and another pixel by none.
C26_Witness ==
    /\ masks.step = "combined"
    /\ Len(masks.input) = 3
    /\ \E i \in 1..MaskPixels :
           /\ masks.combined.data[i] = 1
           /\ \E k \in 1..3 : /\ masks.input[k].data[i] = 255
                              /\ \A j \in (1..3) \ {k} : masks.input[j].data[i] = 0
    /\ \E i \in 1..MaskPixels : masks.combined.data[i] = 0

(***************************************************************************)
(* Properties of the export store (SpecExport).                            *)
(***************************************************************************)
\* This step is a cancelExport call.
CancelExportCalled ==
    /\ last'.op = "cancelExport"
    /\ <<last, exportStore, exportRuns>>' # <<last, exportStore, exportRuns>>

\* This step is the catch block of a run that had been cancelled.
CancelledRunRejects ==
    /\ last'.op = "exportFails"
    /\ \E run \in exportRuns :
           /\ run.aborted
           /\ \A other \in exportRuns' : other.controller # run.controller

\* C27 as stated: after any cancelExport the state is 'idle' and error is null,
\* and the rejection of a cancelled run never gives state 'error' or an error.
C27_CancelIsSilent ==
    [][/\ CancelExportCalled
          => exportStore'.state = "idle" /\ ~exportStore'.error
       /\ CancelledRunRejects
          => exportStore'.state # "error" /\ ~exportStore'.error]_vars

\* C27, amended: after a cancelExport called while the state is 'exporting'
\* the state is 'idle' and error is null (called in another state it leaves
\* the error as it was), and the rejection of a cancelled run never gives state
\* 'error' or an error.
C27_CancelOfExportIsSilent ==
    [][/\ (CancelExportCalled /\ exportStore.state = "exporting")
          => exportStore'.state = "idle" /\ ~exportStore'.error
       /\ CancelExportCalled
          => exportStore'.state = "idle" /\ exportStore'.error = exportStore.error
       /\ CancelledRunRejects
          => exportStore'.state # "error" /\ ~exportStore'.error]_vars

\* An export was cancelled while its resources were loading (the run is still
\* in flight), and a later one while it was recording.
C27_Witness ==
    /\ last.op = "cancelExport"
    /\ exportStore.state = "idle"
    /\ ~exportStore.error
    /\ \E run \in exportRuns : run.aborted
    /\ exportStore.abortController = 0
    /\ Cardinality(exportRuns) = 1
    /\ \E run \in exportRuns : run.controller > 1

(***************************************************************************)
(* Properties of the playback store (SpecSeek).                            *)
(***************************************************************************)
\* C28: after seek(t) or seekRelative(d), from any playback state and for any
\* argument, isPlaying is false and 0 <= currentTime <= getDuration().
C28_SeekClamps ==
    last.op \in {"seek", "seekRelative"}
        => /\ ~isPlaying
           /\ 0 <= currentTime
           /\ currentTime <= calculateTotalDuration(clips)

\* What does hold: playback is paused and the time is not negative.
SeekPausesAndClampsAtZero ==
    last.op \in {"seek", "seekRelative"} => ~isPlaying /\ 0 <= currentTime

(***************************************************************************)
(* Properties of the segmentation store (SpecPreview, SpecTracking).       *)
(***************************************************************************)
\* C29: once every outstanding preview request has settled, previewMask is the
\* result for the coordinate asked for last (its mask, or null), or null if the
\* last preview action was clearPreview, clear or a deactivation: the response
\* to an earlier request is never left on display.
C29_LastPreviewWins ==
    segmentation.inflight = 0 =>
        /\ segmentation.asked.action = "clear" => segmentation.previewMask = 0
        /\ segmentation.asked.action = "preview"
               => segmentation.previewMask \in {0, segmentation.asked.coordinate}

\* This step is an iteration of the frame loop in which the frame failed.
FrameFailed ==
    /\ segmentation.job.phase = "frames"
    /\ segmentation'.job # segmentation.job
    /\ segmentation'.job.outcome \in FrameOutcomes \ {"mask"}
    /\ segmentation'.job.phase # "done"

\* The region of the job is in the store, finalized, and the store is idle.
Finalized ==
    /\ ~segmentation.isProcessing
    /\ \E k \in 1..Len(colorRegions) :
           /\ colorRegions[k].id = segmentation.job.regionId
           /\ ~colorRegions[k].isProcessing

\* C30: a frame whose extraction, detection or segmentation fails (throws or
\* gives no mask) is skipped and nothing else: the loop goes on to the next
\* frame with the region as it was, and the job ends with the region kept and
\* finalized and the segmentation store's isProcessing false.
C30_FrameFailuresAreSkipped ==
    [][/\ FrameFailed
          => /\ segmentation'.job.phase = "frames"
             /\ segmentation'.job.i = segmentation.job.i + 1
             /\ colorRegions' = colorRegions
       /\ segmentation'.job.phase = "done" => Finalized']_vars

\* The same for the failures the loop's try block sees: a throw of
\* detectObjects or of runSegment, and a null mask.
CaughtFailuresAreSkipped ==
    [][/\ (FrameFailed /\ segmentation'.job.outcome # "extractThrows")
          => /\ segmentation'.job.phase = "frames"
             /\ segmentation'.job.i = segmentation.job.i + 1
             /\ colorRegions' = colorRegions
       /\ segmentation'.job.phase = "done" => Finalized']_vars


(***************************************************************************)
(* Export geometry.                                                        *)
(***************************************************************************)
\* The referenced sources whose dimensions are known.
KnownSources ==
    {s \in DOMAIN sources :
        /\ \E i \in 1..Len(clips) : clips[i].sourceId = s
        /\ sources[s].widthInPixels # 0
        /\ sources[s].heightInPixels # 0}
LargestOf(S) == IF S = {} THEN 0 ELSE CHOOSE n \in S : \A m \in S : m <= n
EvenBelow(n) == n - (n % 2)
OutputGeometry ==
    Size(EvenBelow(LargestOf({sources[s].widthInPixels : s \in KnownSources})),
         EvenBelow(LargestOf({sources[s].heightInPixels : s \in KnownSources})))

\* C31: while the export runs, at every frame, the render target's width and
\* height are the largest width and the largest height over the referenced
\* sources with known dimensions, each rounded down to an even number;
\* rendering a frame of any source does not change the render target's size.
C31_RenderTargetKeepsGeometry ==
    recording.stage = "running" => recording.canvas = OutputGeometry

\* The computed geometry is that one, and the canvas has it until the first
\* frame of a source is rendered.
CanvasStartsAtOutputGeometry ==
    recording.stage = "running" =>
        /\ recording.output = OutputGeometry
        /\ recording.frames = 0 => recording.canvas = OutputGeometry


(***************************************************************************)
(* Playback (SpecPlayback).                                                *)
(***************************************************************************)
\* This step is handleTogglePlay called while paused.
StartsPlayback == last'.op = "togglePlay" /\ ~isPlaying
ClipIsActive == getActiveClipAtTime(currentTime, clips) # NoActiveClip

ClipEnds ==
    /\ last'.op = "updateTime"
    /\ ~player'.video.paused /\ ~player'.frameRequested
\* The clip the running effect is bound to, as an index of the clip list.
BoundIndex == findIndex(clips, player.clip.id)

\* C33: in a playback that nothing interrupts, when the end of a clip that is
\* not the last one is reached the playhead moves into the clip that follows it
\* immediately, and when the end of the last clip is reached playback stops
\* with isPlaying false and currentTime at the timeline's duration.
C33_PlaysClipsInOrder ==
    [][ClipEnds =>
          IF BoundIndex < Len(clips)
          THEN findActive(clips, 1, currentTime') = BoundIndex + 1
          ELSE ~isPlaying' /\ currentTime' = calculateTotalDuration(clips)
      ]_vars

\* It does hold on timelines whose clips are all at least MIN_CLIP_LENGTH long.
LongClipsPlayInOrder ==
    [][(ClipEnds /\ \A i \in 1..Len(clips) :
                        getClipDuration(clips[i]) >= MIN_CLIP_LENGTH) =>
          IF BoundIndex < Len(clips)
          THEN /\ findActive(clips, 1, currentTime') = BoundIndex + 1
               /\ isPlaying'
          ELSE ~isPlaying' /\ currentTime' = calculateTotalDuration(clips)
      ]_vars


\* This step sends a preview request to the segmentation model; this step is
\* the settling of one.
IssuesRequest == segmentation'.outstanding = segmentation.outstanding + 1
RequestSettles == segmentation'.outstanding = segmentation.outstanding - 1

\* C34: segmentation preview is single-flight.  At most one preview request is
\* outstanding at any time, and the in-flight flag is set exactly while one is;
\* a request is only sent when none is outstanding (a preview call made while
\* one is outstanding sends none); and when the request settles, with a mask,
\* with null or by throwing, the flag is released, so that the next preview
\* sends a request again.
C34_PreviewIsSingleFlight ==
    [][/\ segmentation'.outstanding <= 1
       /\ segmentation'.isPreviewProcessing <=> segmentation'.outstanding = 1
       /\ IssuesRequest =>
             ~segmentation.isPreviewProcessing /\ segmentation.outstanding = 0
       /\ RequestSettles => ~segmentation'.isPreviewProcessing
       /\ (/\ segmentation'.asked.action = "preview"
           /\ segmentation'.asked # segmentation.asked
           /\ segmentation.imageData /\ segmentation.modelsLoaded
           /\ ~segmentation.isPreviewProcessing) => IssuesRequest
      ]_vars

\* A preview of another coordinate was asked for while a request is
\* outstanding: no second request was sent.
C34_Witness ==
    /\ segmentation.outstanding = 1
    /\ segmentation.isPreviewProcessing
    /\ segmentation.inflight = 1
    /\ segmentation.asked = [action |-> "preview", coordinate |-> 2]


\* The run leaves in this step: its startExport call reaches its last `set`.
Finishes(run) == \A q \in exportRuns' : q.controller # run.controller

\* C35: only the current export run drives the export store.  A run whose
\* controller was aborted by cancelExport, at whatever point of the run, changes
\* nothing in the store when it comes to its end (it neither sets 'complete'
\* nor clears the abortController of a newer run), and at most one run is
\* active at any time.
C35_OnlyCurrentRunDrivesStore ==
    [][/\ \A run \in exportRuns :
             (run.aborted /\ Finishes(run)) => exportStore' = exportStore
       /\ Cardinality(exportRuns') <= 1
      ]_vars

\* A cancelled run at least never reports an error.
CancelledRunReportsNoError ==
    [][\A run \in exportRuns :
          (run.aborted /\ Finishes(run)) => exportStore'.error = exportStore.error
                                                \/ ~exportStore'.error
      ]_vars


(***************************************************************************)
(* Undo, redo and what the snapshots leave out.                            *)
(***************************************************************************)
MaskFields == {"frameMasks", "totalFrames", "processedFrames"}
\* Region `after` carries the masks and counters of region `before`.
KeepsMasksOf(after, before) ==
    \A f \in MaskFields \cap DOMAIN before :
        f \in DOMAIN after /\ after[f] = before[f]

\* C36: undo and redo change only the clip list and which color regions exist:
\* a color region that is in the store before and after an undo or a redo has,
\* after it, the frameMasks, totalFrames and processedFrames it had before.
C36_UndoKeepsMasks ==
    [][last'.op \in {"undo", "redo"} =>
          \A i \in 1..Len(colorRegions') : \A j \in 1..Len(colorRegions) :
              colorRegions'[i].id = colorRegions[j].id
                  => KeepsMasksOf(colorRegions'[i], colorRegions[j])
      ]_vars

\* What they do keep of a region: its id and its clip.
UndoKeepsRegionIdentity ==
    [][last'.op \in {"undo", "redo"} =>
          \A i \in 1..Len(colorRegions') : \A j \in 1..Len(colorRegions) :
              colorRegions'[i].id = colorRegions[j].id
                  => colorRegions'[i].clipId = colorRegions[j].clipId
      ]_vars


(***************************************************************************)
(* The selection and the source registry.                                  *)
(***************************************************************************)
SelectionIsOnTimeline == selectedClipId = 0 \/ HasClip(clips, selectedClipId)

\* C37: in every state reached through addClip, removeClip, clearClips,
\* splitClip, reorderClips, trims, selectClip of a clip on the timeline, undo
\* and redo, selectedClipId is null or the id of a clip in the clip list.
C37_SelectionIsOnTimeline == SelectionIsOnTimeline

\* Every operation other than undo and redo keeps the selection on the timeline.
MutationsKeepSelectionOnTimeline ==
    [][(SelectionIsOnTimeline /\ last'.op \notin {"undo", "redo"})
          => SelectionIsOnTimeline']_vars


SourcesAreRegistered == \A i \in 1..Len(clips) : clips[i].sourceId \in DOMAIN sources

\* C38: in every reachable state, also after removeVideo (which clears the
\* clips and the source registry) followed by undo, the sourceId of every clip
\* is the id of a source in the source registry.
C38_ClipsReferToSources == SourcesAreRegistered

\* Loading, adding, trimming and removing keep every clip's source registered.
EditsKeepSourcesRegistered ==
    [][(SourcesAreRegistered /\ last'.op # "undo") => SourcesAreRegistered']_vars


\* The regions in processing state are those of the running tracking job.
OnlyTheJobsRegionProcesses ==
    /\ \A i \in 1..Len(colorRegions) :
          colorRegions[i].isProcessing =>
              /\ segmentation.isProcessing
              /\ segmentation.processingRegionId = colorRegions[i].id
    /\ Cardinality({i \in 1..Len(colorRegions) : colorRegions[i].isProcessing}) <= 1

\* C39: a color region has isProcessing = true only while the tracking job for
\* it runs (its id is the segmentation store's processingRegionId), so at most
\* one region is in processing state; once the job has ended, successfully or
\* not, no region has isProcessing = true, also after an undo or a redo.
C39_ProcessingOnlyWhileTracked == OnlyTheJobsRegionProcesses

\* Tracking by itself keeps to that: only undo and redo bring a region back in
\* processing state.
TrackingKeepsProcessingToTheJob ==
    [][(OnlyTheJobsRegionProcesses /\ last'.op \notin {"undo", "redo"})
          => OnlyTheJobsRegionProcesses']_vars


\* The trim memory of a clip lies inside its source.
MemoryWithinSource(clip) ==
    /\ clip.trimmed.startSeconds >= 0
    /\ clip.trimmed.endSeconds >= 0
    /\ clip.sourceInPointSeconds - clip.trimmed.startSeconds >= 0
    /\ clip.sourceId \in DOMAIN sources
    /\ clip.sourceOutPointSeconds + clip.trimmed.endSeconds
           <= sources[clip.sourceId].durationInSeconds

\* C40: in every state reached through addClip, trims and splits, every clip
\* has trimmed.startSeconds >= 0, trimmed.endSeconds >= 0,
\* sourceInPointSeconds - trimmed.startSeconds >= 0 and
\* sourceOutPointSeconds + trimmed.endSeconds <= the duration of its source:
\* the trim memory never claims material outside the source.
C40_TrimMemoryWithinSource ==
    \A i \in 1..Len(clips) : MemoryWithinSource(clips[i])

\* C40 witness: a start trim asked for a point past the source on a clip that
\* a split had made and whose end was trimmed; the clip holds memory on both
\* sides, and the memory at its end reaches the end of the source exactly.
C40_Witness ==
    /\ Trimmed
    /\ last.op = "trimClipStart"
    /\ last.clipId = last.cut.right
    /\ last.arg > sources[TrimmedClip.sourceId].durationInSeconds
    /\ TrimmedClip.trimmed.startSeconds > 0
    /\ TrimmedClip.trimmed.endSeconds > 0
    /\ TrimmedClip.sourceInPointSeconds - TrimmedClip.trimmed.startSeconds
           = last.cut.point
    /\ TrimmedClip.sourceOutPointSeconds + TrimmedClip.trimmed.endSeconds
           = sources[TrimmedClip.sourceId].durationInSeconds

====
